---- MODULE Spec2Model ----
(***************************************************************************)
(* Model of the staemme bot orchestrator (src/staemme/app.py), its         *)
(* protection monitor (core/bot_protection.py), the village pipeline       *)
(* (managers/village_manager.py) and the fill-scavenge trainer             *)
(* (managers/troop_manager.py).                                            *)
(*                                                                         *)
(* Spec      the cooperative tasks of one process: Application.run and     *)
(*           its main loop, the periodic monitor task, the panel/HTTP      *)
(*           action handlers, the signal handler, and the environment      *)
(*           (page content, clock).  A step of a task runs from one        *)
(*           suspension point (driver navigation, sleep, Telegram send)    *)
(*           to the next; panel pushes are taken as part of the step.      *)
(* WakeSpec  the end-of-cycle wake-up computation of _main_loop on         *)
(*           bounded inputs.                                               *)
(* CycleSpec one village cycle (VillageManager.run_cycle and the except    *)
(*           branches of _process_village) for every toggle set and        *)
(*           override entry.                                               *)
(* ToggleSpec the panel's global and per-village feature toggles.          *)
(* BuildSpec one BuildingManager.run against the construction queue.       *)
(* AutoSkipSpec two villages processed in turn, with the pruning of the    *)
(*           panel build queue after each cycle.                           *)
(* FnSpec    the sequential planner, the resource wait and the scavenge    *)
(*           allocation on bounded inputs.                                 *)
(* ScavSpec  one ScavengeManager.run in ratio mode and the legacy modes.   *)
(* FillSpec  one TroopManager.run_fill_scavenge.                           *)
(* LogSpec, TimerSpec  the log ring and the timers of PanelStateStore.     *)
(* PersistSpec  the saved build queues and toggle states over restarts.    *)
(* BridgeSpec  panel actions over the console bridge and the WebSocket.    *)
(* SocketSpec  WebSocket connects against broadcasts.                      *)
(* AlertSpec  the notifications of BotProtectionMonitor with the clock.    *)
(* PrioSpec  the priority planner on bounded inputs.                       *)
(* RecruitSpec  TroopManager.run in targets mode over repeated cycles.     *)
(* PlanSpec  one BuildingManager.run with levels, queue and resources.     *)
(* SyncSpec  the panel build queues synced into the one BuildingManager.   *)
(***************************************************************************)
EXTENDS Integers, Sequences, FiniteSets, TLC

\* ------------------------------------------------------------------------
\* Bounds of the model
\* ------------------------------------------------------------------------
NumVillages == 2
CooldownTicks == 1

Villages == 1..NumVillages
FeatureConfigs == {{"troops", "farming"}, {"scavenging"}}
Pages == {"game", "bot_check", "bot_protection", "element", "login"}
NoPattern == "none"

VARIABLES
    telegramOn,   \* bot_token and chat_id are configured
    features,     \* globally enabled features
    running,      \* Application._running
    paused,       \* Application._paused
    botState,     \* PanelStateStore.bot_state
    banner,       \* PanelStateStore.bot_protection_pattern, NoPattern when the banner is off
    detected,     \* BotProtectionMonitor._detected
    resolvedEvent,\* BotProtectionMonitor._resolved_event
    sinceAlert,   \* clock ticks since _last_alert_time, saturating at CooldownTicks
    page,         \* what the browser page currently shows
    mainPc,       \* suspension point of Application.run / _main_loop
    order,        \* villages of the current cycle not yet dispatched
    managers,     \* managers of the current village cycle, head is executing
    monPc,        \* suspension point of the periodic monitor task
    monPattern,   \* pattern carried by the monitor across a Telegram send
    browserOpen,  \* BrowserClient not yet closed
    dbOpen,       \* Database not yet closed
    exitCode,     \* value returned by run(), -1 while it has not returned
    sigPending,   \* a signal cleared the run flag and no start/resolved followed
    wk,           \* record of the wake-up computation (WakeSpec)
    cy,           \* record of one village cycle: run_cycle and its caller (CycleSpec)
    bm,           \* record of one BuildingManager.run (BuildSpec, PlanSpec); the manager across villages (SyncSpec)
    fx,           \* record of a pure computation on bounded inputs (FnSpec, PrioSpec)
    ov,           \* global toggles and per-village overrides of the config (ToggleSpec)
    sc,           \* record of one ScavengeManager.run / TroopManager run (ScavSpec, FillSpec, RecruitSpec)
    ps,           \* PanelStateStore: log ring and timers (LogSpec, TimerSpec); the monitor's notifications (AlertSpec)
    disk,         \* the data directory and the Application's saved maps (PersistSpec)
    ws            \* panel transports: console bridge and WebSocket connections (BridgeSpec, SocketSpec)

flagVars == <<running, paused, botState>>
protVars == <<banner, detected, sinceAlert>>
monVars == <<monPc, monPattern>>
cycVars == <<order, managers>>
envVars == <<page, resolvedEvent>>
resVars == <<browserOpen, dbOpen, exitCode>>
auxVars == <<sc, ps, disk, ws>>
static == <<telegramOn, features, browserOpen, dbOpen, exitCode, wk, cy, bm, fx, ov, auxVars>>
vars == <<telegramOn, features, running, paused, botState, banner, detected,
          resolvedEvent, sinceAlert, page, mainPc, order, managers, monPc,
          monPattern, browserOpen, dbOpen, exitCode, sigPending, wk, cy, bm, fx, ov, auxVars>>

\* ------------------------------------------------------------------------
\* Pure helpers
\* ------------------------------------------------------------------------
Perms(S) == {s \in [1..Cardinality(S) -> S] : \A i, j \in 1..Cardinality(S) : s[i] = s[j] => i = j}

\* BotProtectionMonitor.check_url
check_url(p) == IF p \in {"bot_check", "bot_protection"} THEN "url_bot_check" ELSE NoPattern

\* BotProtectionMonitor.check_page: URL first, then the DOM selectors
check_page(p) ==
    IF check_url(p) # NoPattern THEN check_url(p)
    ELSE IF p = "element" THEN "bot_check_popup"
    ELSE NoPattern

\* BrowserClient._check_page_state
check_page_state(p) ==
    IF p = "bot_check" THEN "captcha"
    ELSE IF p = "login" THEN "session_expired"
    ELSE "ok"

\* BrowserClient._post_navigation: what a navigation raises.  A pattern found by
\* check_page is a str, so evaluating result.pattern raises AttributeError.
post_navigation(p) ==
    IF check_page_state(p) # "ok" THEN check_page_state(p)
    ELSE IF check_page(p) # NoPattern THEN "attribute_error"
    ELSE "ok"

\* BrowserClient.wait_for_captcha_resolved: game URL without bot_check
captcha_resolved(p) == p \in {"game", "bot_protection", "element"}

AlertDueAlways(since) == TRUE
\* on_detection: the cooldown test  now - _last_alert_time >= _alert_cooldown
AlertDue(since) == since >= CooldownTicks

VillageLoopIgnoresPause(r, p) == r
\* _main_loop: the per-village guard  not (not _running or _paused)
VillageLoopContinues(r, p) == r /\ ~p

\* VillageManager._any_feature_needs_overview
any_feature_needs_overview(fs) == fs \cap {"building", "farming", "troops"} # {}

\* _send_telegram: the number of messages a call of on_detection sends
Sent(due) == IF due /\ telegramOn THEN 1 ELSE 0

\* ------------------------------------------------------------------------
\* The wake-up computation at the end of a cycle of _main_loop (seconds)
\* ------------------------------------------------------------------------
EventThreshold == 30
JitterLow == 10
JitterHigh == 30
FillThreshold == 120
ActiveDelayLow == 120
ActiveDelayHigh == 300

\* the waits the computation is run on, and the time training may take
WaitValues == {0, 30, 50, 150, 300, 600, 1200}
TrainElapsed == {0, 20}

\* Humanizer.random_cycle_delay: the ends and the middle of the range
random_cycle_delay(low, high) == {low, (low + high) \div 2, high}

QualifiesAny(w) == w > 0
\* _main_loop: an event is a candidate when it is more than 30 s away
Qualifies(w) == w > EventThreshold

\* _main_loop: wait_events, in the order the code appends them
wait_events(w) ==
    SelectSeq(<< <<"scavenge", w.scav>>, <<"build_queue", w.build>>,
                 <<"resources", w.res>>, <<"farming", w.farm>> >>,
              LAMBDA e : Qualifies(e[2]))

\* _main_loop: post_events after e seconds of training
post_events(w, e) ==
    SelectSeq(<< <<"scavenge", w.scav - e>>, <<"farming", w.farm - e>> >>,
              LAMBDA x : x[2] > 0)

\* min(events, key=lambda x: x[1]): the first event with the least wait
min_event(evs) ==
    evs[CHOOSE i \in 1..Len(evs) :
            /\ \A j \in 1..Len(evs) : evs[j][2] >= evs[i][2]
            /\ \A j \in 1..(i - 1) : evs[j][2] > evs[i][2]]

\* the record of the computation while it is not running
WakeIdle == [pc |-> "off", scav |-> 0, build |-> 0, res |-> 0, farm |-> 0,
             fill |-> FALSE, name |-> "none", delay |-> 0, slept |-> 0]


\* the records of the other specifications while they are not running
CycleIdle == [pc |-> "off", glob |-> {}, ovr |-> [present |-> FALSE, val |-> "null"],
              attack |-> FALSE, plan |-> <<>>, order |-> <<>>, ran |-> {},
              performed |-> {}, result |-> "unset", reports |-> FALSE,
              signal |-> "none", raised |-> "none", handler |-> "none"]
BuildIdle == [pc |-> "off", sub |-> 0, q0 |-> 0, seen |-> 0]
FnIdle == [kind |-> "off"]
ToggleIdle == [glob |-> {}, ovr |-> <<>>, n |-> 0]
ScavIdle == [pc |-> "off"]
PanelIdle == [pc |-> "off"]
FilesIdle == [pc |-> "off"]
SocketIdle == [pc |-> "off"]
AuxIdle == sc = ScavIdle /\ ps = PanelIdle /\ disk = FilesIdle /\ ws = SocketIdle

\* ------------------------------------------------------------------------
\* Initial state: Application.__init__, PanelStateStore.__init__,
\* BotProtectionMonitor.__init__ (_last_alert_time = 0: the cooldown has elapsed)
\* ------------------------------------------------------------------------
Init ==
    /\ telegramOn \in BOOLEAN
    /\ features \in FeatureConfigs
    /\ running = FALSE
    /\ paused = FALSE
    /\ botState = "stopped"
    /\ banner = NoPattern
    /\ detected = FALSE
    /\ resolvedEvent = FALSE
    /\ sinceAlert = CooldownTicks
    /\ page = "game"
    /\ mainPc = "startup"
    /\ order = <<>>
    /\ managers = <<>>
    /\ monPc = "off"
    /\ monPattern = NoPattern
    /\ browserOpen = TRUE
    /\ dbOpen = TRUE
    /\ exitCode = -1
    /\ sigPending = FALSE
    /\ AuxIdle
    /\ wk = WakeIdle
    /\ cy = CycleIdle
    /\ bm = BuildIdle
    /\ fx = FnIdle
    /\ ov = ToggleIdle

\* ------------------------------------------------------------------------
\* Application._handle_bot_protection, up to the Telegram send of
\* BotProtectionMonitor.on_detection; since is the cooldown clock as the
\* caller left it.
\* ------------------------------------------------------------------------
HandleBotProtection(pat, since) ==
    /\ running' = FALSE
    /\ paused' = FALSE
    /\ botState' = "stopped"
    /\ banner' = pat
    /\ detected' = TRUE
    /\ sinceAlert' = IF AlertDue(since) THEN 0 ELSE since

\* on_detection suspends in _send_telegram only when a message is really sent
HandlerSends(since) == Sent(AlertDue(since)) = 1

\* ------------------------------------------------------------------------
\* Periodic monitor task: BotProtectionMonitor._periodic_loop
\* ------------------------------------------------------------------------
\* Application._on_bot_protection_detected, called after on_detection returned
\* (det is _detected at that point)
OnDetected(pat, since, det) ==
    IF ~running
    THEN /\ detected' = det
         /\ sinceAlert' = since
         /\ monPc' = "sleep"
         /\ UNCHANGED <<flagVars, banner>>
    ELSE /\ HandleBotProtection(pat, since)
         /\ monPc' = IF HandlerSends(since) THEN "send_handle" ELSE "sleep"

\* one wake-up of the loop that sees a pattern while not detected:
\* on_detection, then (unless suspended in the send) the on_detected callback
MonDetect ==
    /\ monPc = "sleep"
    /\ check_page(page) # NoPattern
    /\ ~detected
    /\ LET pat == check_page(page)
           due == AlertDue(sinceAlert)
           since1 == IF due THEN 0 ELSE sinceAlert
       IN IF Sent(due) = 1
          THEN /\ detected' = TRUE
               /\ sinceAlert' = since1
               /\ monPc' = "send_detect"
               /\ monPattern' = pat
               /\ UNCHANGED <<flagVars, banner>>
          ELSE /\ OnDetected(pat, since1, TRUE)
               /\ monPattern' = NoPattern
    /\ UNCHANGED <<static, envVars, cycVars, mainPc, sigPending>>

\* one wake-up that sees no pattern while detected: on_clear, then on_cleared
\* (Application._on_bot_protection_cleared does nothing)
MonClear ==
    /\ monPc = "sleep"
    /\ check_page(page) = NoPattern
    /\ detected
    /\ detected' = FALSE
    /\ monPc' = IF telegramOn THEN "send_clear" ELSE "sleep"
    /\ UNCHANGED <<static, envVars, cycVars, mainPc, sigPending, monPattern,
                   flagVars, banner, sinceAlert>>

\* a Telegram send of the monitor task ends: after the detection alert the
\* on_detected callback runs; after the others the loop sleeps again
MonSent ==
    /\ monPc \in {"send_detect", "send_handle", "send_clear"}
    /\ IF monPc = "send_detect"
       THEN OnDetected(monPattern, sinceAlert, detected)
       ELSE monPc' = "sleep" /\ UNCHANGED <<flagVars, protVars>>
    /\ monPattern' = NoPattern
    /\ UNCHANGED <<static, envVars, cycVars, mainPc, sigPending>>

\* BotProtectionMonitor.manual_resolve
ManualResolve ==
    /\ mainPc # "done"
    /\ ~resolvedEvent
    /\ resolvedEvent' = TRUE
    /\ UNCHANGED <<static, page, cycVars, mainPc, sigPending, monVars, flagVars, protVars>>

\* ------------------------------------------------------------------------
\* Panel / HTTP action handlers and the signal handler
\* ------------------------------------------------------------------------
PanelReady == mainPc \notin {"startup", "done"}

\* Application._on_panel_start
OnPanelStart ==
    /\ PanelReady
    /\ running' = TRUE
    /\ paused' = FALSE
    /\ botState' = "running"
    /\ sigPending' = FALSE
    /\ UNCHANGED <<static, envVars, cycVars, mainPc, monVars, protVars>>

\* Application._on_panel_pause
OnPanelPause ==
    /\ PanelReady
    /\ paused' = TRUE
    /\ botState' = "paused"
    /\ UNCHANGED <<static, envVars, cycVars, mainPc, sigPending, monVars, running, protVars>>

\* Application._on_panel_stop
OnPanelStop ==
    /\ PanelReady
    /\ running' = FALSE
    /\ paused' = FALSE
    /\ botState' = "stopped"
    /\ UNCHANGED <<static, envVars, cycVars, mainPc, sigPending, monVars, protVars>>

\* Application._on_bot_protection_resolved: _detected is reset directly, so the
\* on_clear it then awaits returns at once
OnBotProtectionResolved ==
    /\ PanelReady
    /\ detected' = FALSE
    /\ banner' = NoPattern
    /\ running' = TRUE
    /\ paused' = FALSE
    /\ botState' = "running"
    /\ sigPending' = FALSE
    /\ UNCHANGED <<static, envVars, cycVars, mainPc, monVars, sinceAlert>>

\* Application._handle_signal (SIGTERM / SIGINT)
HandleSignal ==
    /\ mainPc # "done"
    /\ running' = FALSE
    /\ sigPending' = TRUE
    /\ UNCHANGED <<static, envVars, cycVars, mainPc, monVars, paused, botState, protVars>>

\* ------------------------------------------------------------------------
\* Environment: the page content and the clock
\* ------------------------------------------------------------------------
SendInFlight == monPc \in {"send_detect", "send_handle", "send_clear"}
                \/ mainPc \in {"hbp_send_village", "hbp_send_loop"}

PageChange ==
    /\ mainPc # "done"
    /\ \E p \in Pages \ {page} : page' = p
    /\ UNCHANGED <<static, resolvedEvent, cycVars, mainPc, sigPending, monVars,
                   flagVars, protVars>>

\* time passes; a Telegram send (urlopen timeout 10 s) is shorter than a tick
Tick ==
    /\ mainPc # "done"
    /\ ~SendInFlight
    /\ sinceAlert < CooldownTicks
    /\ sinceAlert' = sinceAlert + 1
    /\ UNCHANGED <<static, envVars, cycVars, mainPc, sigPending, monVars,
                   flagVars, banner, detected>>

\* ------------------------------------------------------------------------
\* Main task: Application.run, _main_loop, _process_village and
\* VillageManager.run_cycle, TroopManager.run_fill_scavenge
\* ------------------------------------------------------------------------
mainFrame == <<telegramOn, features, wk, cy, bm, fx, ov, auxVars, envVars, sigPending>>


\* run(): _initialize, _login, _setup_panel are done; line 109 sets the run flag
RunStartup ==
    /\ mainPc = "startup"
    /\ running' = TRUE
    /\ mainPc' = "setup_game"
    /\ UNCHANGED <<mainFrame, resVars, cycVars, monVars, paused, botState, protVars>>

\* _setup_game ends by starting the periodic check; _main_loop then sets the
\* run flag again and pushes state "running"
SetupGame ==
    /\ mainPc = "setup_game"
    /\ monPc' = "sleep"
    /\ running' = TRUE
    /\ botState' = "running"
    /\ mainPc' = "loop_top"
    /\ UNCHANGED <<mainFrame, resVars, cycVars, monPattern, paused, protVars>>

\* BotProtectionMonitor.stop_periodic_check
StopPeriodic ==
    /\ monPc' = IF monPc = "off" THEN "off" ELSE "cancelled"
    /\ monPattern' = NoPattern

\* run(): an exception of the start-up phase reaches "except Exception", then finally
FatalError ==
    /\ mainPc \in {"startup", "setup_game"}
    /\ StopPeriodic
    /\ mainPc' = "closing"
    /\ UNCHANGED <<mainFrame, resVars, cycVars, flagVars, protVars>>

\* run_cycle after the managers: the report step when farming is enabled
AfterManagers == mainPc' = IF "farming" \in features THEN "reports" ELSE "village_next"

\* run_cycle: build the enabled managers, shuffle, start the first
StartManagers ==
    \E m \in Perms(features) :
        /\ managers' = m
        /\ IF m = <<>> THEN AfterManagers ELSE mainPc' = "managers"

\* _process_village -> run_cycle, up to its first suspension
Dispatch(rest) ==
    /\ order' = rest
    /\ IF any_feature_needs_overview(features)
       THEN mainPc' = "overview" /\ managers' = <<>>
       ELSE StartManagers

\* end of the village loop (villages left in order were skipped by the break):
\* the wake-up computation (see WakeSpec), then fill-scavenge training or the sleep
EndOfCycle ==
    /\ managers' = <<>>
    /\ UNCHANGED order
    /\ \E fill \in BOOLEAN :
        /\ fill => "troops" \in features
        /\ mainPc' = IF fill THEN "fill_info" ELSE "sleep"

\* the head of the per-village for loop
VillageLoop(o) ==
    IF o # <<>> /\ VillageLoopContinues(running, paused)
    THEN Dispatch(Tail(o))
    ELSE EndOfCycle

\* run(): the main loop returned.  With the API server (_use_api) gather still
\* waits for run_api_server; otherwise shutdown starts at once.
LeaveMainLoop ==
    \E api \in BOOLEAN :
        IF api
        THEN mainPc' = "gather_wait" /\ UNCHANGED monVars
        ELSE mainPc' = "closing" /\ StopPeriodic

\* the while test of _main_loop and everything up to the next suspension
LoopTop ==
    /\ mainPc = "loop_top"
    /\ IF ~running
       THEN LeaveMainLoop /\ UNCHANGED cycVars
       ELSE /\ UNCHANGED monVars
            /\ IF paused
               THEN mainPc' = "sleep" /\ UNCHANGED cycVars
               ELSE \E active \in BOOLEAN :
                      IF ~active
                      THEN mainPc' = "sleep" /\ UNCHANGED cycVars
                      ELSE \E o \in Perms(Villages) : VillageLoop(o)
    /\ UNCHANGED <<mainFrame, resVars, flagVars, protVars>>

\* _process_village returned; next iteration of the for loop
VillageNext ==
    /\ mainPc = "village_next"
    /\ VillageLoop(order)
    /\ UNCHANGED <<mainFrame, resVars, monVars, flagVars, protVars>>

\* "except Exception" of _process_village (and of _main_loop): URL check
ErrorUrlCheck(pcSend, pcNext) ==
    IF check_url(page) # NoPattern
    THEN /\ HandleBotProtection(check_url(page), sinceAlert)
         /\ mainPc' = IF HandlerSends(sinceAlert) THEN pcSend ELSE pcNext
    ELSE /\ mainPc' = pcNext
         /\ UNCHANGED <<flagVars, protVars>>

\* the overview navigation of run_cycle ends
OverviewDone ==
    /\ mainPc = "overview"
    /\ \E err \in BOOLEAN :
        LET out == IF err THEN "error" ELSE post_navigation(page) IN
        CASE out = "ok" ->
               /\ \E attack \in BOOLEAN :
                    IF attack
                    THEN AfterManagers /\ UNCHANGED managers
                    ELSE StartManagers
               /\ UNCHANGED <<flagVars, protVars>>
          [] out = "captcha" ->
               /\ botState' = "paused"
               /\ mainPc' = "captcha_wait"
               /\ UNCHANGED <<running, paused, protVars, managers>>
          [] out = "session_expired" ->
               /\ botState' = "stopped"
               /\ mainPc' = "relogin"
               /\ UNCHANGED <<running, paused, protVars, managers>>
          [] OTHER ->
               /\ ErrorUrlCheck("hbp_send_village", "village_next")
               /\ UNCHANGED managers
    /\ UNCHANGED <<mainFrame, resVars, monVars, order>>

\* a manager of run_cycle returns or raises (the exception is logged and
\* dropped); the next one starts
ManagerDone ==
    /\ mainPc = "managers"
    /\ managers' = Tail(managers)
    /\ IF Tail(managers) # <<>> THEN mainPc' = "managers" ELSE AfterManagers
    /\ UNCHANGED <<mainFrame, resVars, monVars, order, flagVars, protVars>>

\* ReportManager.run ends; _process_village publishes the result
ReportsDone ==
    /\ mainPc = "reports"
    /\ mainPc' = "village_next"
    /\ managers' = <<>>
    /\ UNCHANGED <<mainFrame, resVars, monVars, order, flagVars, protVars>>

\* the Telegram send of a handler run by the main task ends
HbpSent ==
    /\ mainPc \in {"hbp_send_village", "hbp_send_loop"}
    /\ mainPc' = IF mainPc = "hbp_send_village" THEN "village_next" ELSE "sleep"
    /\ UNCHANGED <<mainFrame, resVars, monVars, cycVars, flagVars, protVars>>

\* _process_village, CaptchaRequiredError branch: handle_captcha returns
CaptchaDone ==
    /\ mainPc = "captcha_wait"
    /\ IF captcha_resolved(page)
       THEN botState' = "running" /\ UNCHANGED paused
       ELSE paused' = TRUE /\ UNCHANGED botState
    /\ mainPc' = "village_next"
    /\ UNCHANGED <<mainFrame, resVars, monVars, cycVars, running, protVars>>

\* _process_village, SessionExpiredError branch: refresh_session returns, or
\* its login wait times out and the TimeoutError reaches _main_loop
ReloginDone ==
    /\ mainPc = "relogin"
    /\ IF page # "login"
       THEN /\ botState' = "running"
            /\ mainPc' = "village_next"
            /\ UNCHANGED <<running, paused, protVars>>
       ELSE ErrorUrlCheck("hbp_send_loop", "sleep")
    /\ UNCHANGED <<mainFrame, resVars, monVars, cycVars>>

\* run_fill_scavenge: the navigation of get_training_info ends.  An exception
\* reaches "except Exception" of _main_loop; otherwise the batch is submitted
\* with train_units unless one of the early returns applies
FillInfoDone ==
    /\ mainPc = "fill_info"
    /\ \E err \in BOOLEAN :
        LET out == IF err THEN "error" ELSE post_navigation(page) IN
        IF out # "ok"
        THEN ErrorUrlCheck("hbp_send_loop", "sleep")
        ELSE /\ \E train \in BOOLEAN : mainPc' = IF train THEN "fill_train" ELSE "sleep"
             /\ UNCHANGED <<flagVars, protVars>>
    /\ UNCHANGED <<mainFrame, resVars, monVars, cycVars>>

\* train_units returns; _main_loop sleeps until the recomputed wake-up
FillTrainDone ==
    /\ mainPc = "fill_train"
    /\ mainPc' = "sleep"
    /\ UNCHANGED <<mainFrame, resVars, monVars, cycVars, flagVars, protVars>>

\* any asyncio.sleep of _main_loop ends
Wake ==
    /\ mainPc = "sleep"
    /\ mainPc' = "loop_top"
    /\ UNCHANGED <<mainFrame, resVars, monVars, cycVars, flagVars, protVars>>

\* run_api_server returns (uvicorn stops), so asyncio.gather completes
ApiServerExit ==
    /\ mainPc = "gather_wait"
    /\ StopPeriodic
    /\ mainPc' = "closing"
    /\ UNCHANGED <<mainFrame, resVars, cycVars, flagVars, protVars>>

\* Application._shutdown after stop_periodic_check, then return 0
Shutdown ==
    /\ mainPc = "closing"
    /\ browserOpen' = FALSE
    /\ dbOpen' = FALSE
    /\ exitCode' = 0
    /\ mainPc' = "done"
    /\ UNCHANGED <<mainFrame, monVars, cycVars, flagVars, protVars>>

Next ==
    \/ RunStartup \/ SetupGame \/ FatalError \/ LoopTop \/ VillageNext
    \/ OverviewDone \/ ManagerDone \/ ReportsDone \/ HbpSent \/ CaptchaDone
    \/ ReloginDone \/ FillInfoDone \/ FillTrainDone \/ Wake \/ ApiServerExit \/ Shutdown
    \/ MonDetect \/ MonClear \/ MonSent
    \/ ManualResolve \/ OnPanelStart \/ OnPanelPause \/ OnPanelStop
    \/ OnBotProtectionResolved \/ HandleSignal \/ PageChange \/ Tick

Spec == Init /\ [][Next]_vars

\* ------------------------------------------------------------------------
\* WakeSpec: the end of one cycle of _main_loop on bounded waits
\* ------------------------------------------------------------------------
\* the tasks of Spec held at rest while a single computation is examined
CoreAtRest ==
    /\ telegramOn = FALSE
    /\ features = {"troops", "farming"}
    /\ running = TRUE
    /\ paused = FALSE
    /\ botState = "running"
    /\ banner = NoPattern
    /\ detected = FALSE
    /\ resolvedEvent = FALSE
    /\ sinceAlert = CooldownTicks
    /\ page = "game"
    /\ mainPc = "village_next"
    /\ order = <<>>
    /\ managers = <<>>
    /\ monPc = "sleep"
    /\ monPattern = NoPattern
    /\ browserOpen = TRUE
    /\ dbOpen = TRUE
    /\ exitCode = -1
    /\ sigPending = FALSE

WakeInit ==
    /\ CoreAtRest
    /\ AuxIdle
    /\ cy = CycleIdle
    /\ bm = BuildIdle
    /\ fx = FnIdle
    /\ ov = ToggleIdle
    /\ \E s \in WaitValues, b \in WaitValues, r \in WaitValues, f \in WaitValues,
          m \in BOOLEAN :
          wk = [WakeIdle EXCEPT !.pc = "start", !.scav = s, !.build = b, !.res = r,
                                !.farm = f, !.fill = m]

wakeFrame == <<telegramOn, features, running, paused, botState, banner, detected,
               resolvedEvent, sinceAlert, page, mainPc, order, managers, monPc,
               monPattern, browserOpen, dbOpen, exitCode, sigPending, cy, bm, fx, ov, auxVars>>

coreVars == <<telegramOn, features, running, paused, botState, banner, detected,
              resolvedEvent, sinceAlert, page, mainPc, order, managers, monPc,
              monPattern, browserOpen, dbOpen, exitCode, sigPending>>

\* earliest event and delay: the minimum candidate plus jitter, or the active delay
WakeCompute ==
    /\ wk.pc = "start"
    /\ LET evs == wait_events(wk) IN
       IF evs # <<>>
       THEN \E j \in random_cycle_delay(JitterLow, JitterHigh) :
              wk' = [wk EXCEPT !.pc = "computed", !.name = min_event(evs)[1],
                               !.delay = min_event(evs)[2] + j]
       ELSE \E d \in random_cycle_delay(ActiveDelayLow, ActiveDelayHigh) :
              wk' = [wk EXCEPT !.pc = "computed", !.name = "none", !.delay = d]
    /\ UNCHANGED wakeFrame

\* the condition of the fill-scavenge branch
FillBranch(w) == w.fill /\ w.scav > FillThreshold /\ w.delay > FillThreshold

\* fill-scavenge training takes e seconds, then the wait is recomputed from
\* post_events and slept (no sleep at all when post_events is empty)
WakeFill ==
    /\ wk.pc = "computed"
    /\ FillBranch(wk)
    /\ \E e \in TrainElapsed :
        LET post == post_events(wk, e) IN
        IF post # <<>>
        THEN \E buffer \in random_cycle_delay(JitterLow, JitterHigh) :
               wk' = [wk EXCEPT !.pc = "done", !.slept = e + min_event(post)[2] + buffer]
        ELSE wk' = [wk EXCEPT !.pc = "done", !.slept = e]
    /\ UNCHANGED wakeFrame

\* otherwise the loop sleeps for the computed delay
WakeSleep ==
    /\ wk.pc = "computed"
    /\ ~FillBranch(wk)
    /\ wk' = [wk EXCEPT !.pc = "done", !.slept = wk.delay]
    /\ UNCHANGED wakeFrame

WakeNext == WakeCompute \/ WakeFill \/ WakeSleep

WakeSpec == WakeInit /\ [][WakeNext]_vars

\* ------------------------------------------------------------------------
\* CycleSpec: one village cycle, _process_village -> VillageManager.run_cycle,
\* for every global toggle set and every override entry of the village
\* ------------------------------------------------------------------------
FeatureNames == {"building", "farming", "scavenging", "troops"}
Tri == {"null", "true", "false"}

\* config.village_overrides.get(vid): a VillageOverride, or no entry at all
OverrideEntries ==
    {e \in [present : BOOLEAN, val : [FeatureNames -> Tri]] :
        ~e.present => \A f \in FeatureNames : e.val[f] = "null"}

\* is_feature_enabled: the override when it is not None, else the global section
is_feature_enabled(glob, entry, f) ==
    IF entry.present /\ entry.val[f] # "null"
    THEN entry.val[f] = "true"
    ELSE f \in glob

\* the features run_cycle resolves as enabled for the village
EnabledFor(c) == {f \in FeatureNames : is_feature_enabled(c.glob, c.ovr, f)}

\* the first statement of every manager's run(): if not self.config.enabled: return
ManagerGate(glob, f) == f \in glob

RestAfterRaiseAbort(rest) == <<>>
\* run_cycle: the except branch logs, stores False and the for loop goes on
RestAfterRaise(rest) == rest

\* what the driver meant to signal with the outcome of a navigation
SignalOf(out) ==
    CASE out = "session_expired" -> "session_expired"
      [] out = "captcha" -> "captcha"
      [] out = "attribute_error" -> "protection_detected"
      [] OTHER -> "none"

\* the except branch of _process_village that an exception out of run_cycle takes
HandlerOf(out, p) ==
    CASE out = "session_expired" -> "relogin"
      [] out = "captcha" -> "captcha_wait"
      [] OTHER -> IF check_url(p) # NoPattern THEN "protection" ELSE "logged"

\* the reaction the orchestrator owes to a signal
ReactionTo(sig) ==
    CASE sig = "session_expired" -> "relogin"
      [] sig = "captcha" -> "captcha_wait"
      [] OTHER -> "protection"

CycleInit ==
    /\ CoreAtRest
    /\ AuxIdle
    /\ wk = WakeIdle
    /\ bm = BuildIdle
    /\ fx = FnIdle
    /\ ov = ToggleIdle
    /\ \E g \in SUBSET FeatureNames, e \in OverrideEntries, a \in BOOLEAN :
          cy = [pc |-> "start", glob |-> g, ovr |-> e, attack |-> a,
                plan |-> <<>>, order |-> <<>>, ran |-> {}, performed |-> {},
                result |-> [f \in FeatureNames |-> "unset"], reports |-> FALSE,
                signal |-> "none", raised |-> "none", handler |-> "none"]

cycleFrame == <<coreVars, wk, bm, fx, ov, auxVars>>

\* the first signal a driver interaction raised in this cycle
NoteSignal(c, out) == IF c.signal = "none" THEN SignalOf(out) ELSE c.signal

\* run_cycle: the manager list is built from the resolver, shuffled, and the
\* loop starts; without managers the report step (or the return) follows
CycleManagers(c) ==
    \E m \in Perms(EnabledFor(c)) :
        cy' = [c EXCEPT !.plan = m, !.order = m,
                        !.pc = IF m # <<>> THEN "managers"
                               ELSE IF "farming" \in EnabledFor(c) THEN "reports"
                               ELSE "done"]

\* an exception leaves run_cycle and is handled by _process_village
CycleRaise(c, out, p) ==
    cy' = [c EXCEPT !.pc = "done", !.raised = out, !.signal = NoteSignal(c, out),
                    !.handler = HandlerOf(out, p)]

\* run_cycle up to the overview fetch
CycleStart ==
    /\ cy.pc = "start"
    /\ IF any_feature_needs_overview(EnabledFor(cy))
       THEN cy' = [cy EXCEPT !.pc = "overview"]
       ELSE CycleManagers(cy)
    /\ UNCHANGED cycleFrame

\* get_village_state and defense.check return or raise
CycleOverview ==
    /\ cy.pc = "overview"
    /\ \E p \in Pages, err \in BOOLEAN :
        LET out == IF err THEN "error" ELSE post_navigation(p) IN
        IF out # "ok" THEN CycleRaise(cy, out, p)
        ELSE IF cy.attack
        THEN cy' = [cy EXCEPT !.pc = IF "farming" \in EnabledFor(cy)
                                     THEN "attack_reports" ELSE "done"]
        ELSE CycleManagers(cy)
    /\ UNCHANGED cycleFrame

\* under attack: reports.run outside any try, then return
CycleAttackReports ==
    /\ cy.pc = "attack_reports"
    /\ \E p \in Pages, err \in BOOLEAN :
        LET out == IF err THEN "error" ELSE post_navigation(p) IN
        IF out # "ok" THEN CycleRaise(cy, out, p)
        ELSE cy' = [cy EXCEPT !.pc = "done", !.reports = TRUE]
    /\ UNCHANGED cycleFrame

\* one manager of the loop: its gate, its navigations and the navigation back
\* to the overview, all inside the try
CycleManager ==
    /\ cy.pc = "managers"
    /\ \E p \in Pages, err \in BOOLEAN :
        LET out == IF err THEN "error" ELSE post_navigation(p)
            f == Head(cy.order)
            rest == IF out = "ok" THEN Tail(cy.order) ELSE RestAfterRaise(Tail(cy.order))
        IN cy' = [cy EXCEPT
                    !.ran = @ \cup {f},
                    !.performed = IF ManagerGate(cy.glob, f) THEN @ \cup {f} ELSE @,
                    !.result[f] = IF out = "ok" THEN "done" ELSE "false",
                    !.signal = NoteSignal(cy, out),
                    !.order = rest,
                    !.pc = IF rest # <<>> THEN "managers"
                           ELSE IF "farming" \in EnabledFor(cy) THEN "reports"
                           ELSE "done"]
    /\ UNCHANGED cycleFrame

\* the report step, inside its own try
CycleReports ==
    /\ cy.pc = "reports"
    /\ \E p \in Pages, err \in BOOLEAN :
        LET out == IF err THEN "error" ELSE post_navigation(p) IN
        cy' = [cy EXCEPT !.pc = "done", !.reports = TRUE, !.signal = NoteSignal(cy, out)]
    /\ UNCHANGED cycleFrame

CycleNext ==
    CycleStart \/ CycleOverview \/ CycleAttackReports \/ CycleManager \/ CycleReports

CycleSpec == CycleInit /\ [][CycleNext]_vars

\* ------------------------------------------------------------------------
\* ToggleSpec: the panel's feature toggles acting on the configuration
\* ------------------------------------------------------------------------
\* number of panel toggle actions followed in one behaviour
MaxToggles == 3
ToggleVillages == {"v1", "v2"}
RawValues == Tri \cup {"on"}

\* VillageOverride(): every field None
FreshOverride == [present |-> TRUE, val |-> [f \in FeatureNames |-> "null"]]

\* _on_village_toggle: "null" -> None, "true" -> True, anything else -> False
ParseTri(raw) == IF raw = "null" THEN "null" ELSE IF raw = "true" THEN "true" ELSE "false"

EntryAlwaysFresh(o, v) == FreshOverride
\* _on_village_toggle: the village's entry, created when the village has none
EntryFor(o, v) == IF o[v].present THEN o[v] ELSE FreshOverride

ToggleInit ==
    /\ CoreAtRest
    /\ AuxIdle
    /\ wk = WakeIdle
    /\ cy = CycleIdle
    /\ bm = BuildIdle
    /\ fx = FnIdle
    /\ \E g \in SUBSET FeatureNames :
          ov = [glob |-> g, n |-> 0,
                ovr |-> [v \in ToggleVillages |->
                            [present |-> FALSE, val |-> [f \in FeatureNames |-> "null"]]]]

toggleFrame == <<coreVars, wk, cy, bm, fx, auxVars>>

\* _on_toggle_building / _farming / _scavenging / _troops
GlobalToggle(f, raw) ==
    /\ ov.ovr # <<>> /\ ov.n < MaxToggles
    /\ ov' = [ov EXCEPT !.glob = IF raw = "true" THEN @ \cup {f} ELSE @ \ {f}, !.n = @ + 1]
    /\ UNCHANGED toggleFrame

\* _on_village_toggle with a well-formed '<vid>:<feature>:<value>'
VillageToggled(v, f, raw) ==
    /\ ov.ovr # <<>> /\ ov.n < MaxToggles
    /\ ov' = [ov EXCEPT !.ovr[v] = [EntryFor(ov.ovr, v) EXCEPT !.val[f] = ParseTri(raw)],
                        !.n = @ + 1]

VillageToggle(v, f, raw) == VillageToggled(v, f, raw) /\ UNCHANGED toggleFrame

\* _on_village_toggle naming a field VillageOverride does not have: the entry
\* is created, setattr raises ValueError, which is caught and logged
VillageToggleUnknown(v) ==
    /\ ov.ovr # <<>> /\ ov.n < MaxToggles
    /\ ov' = [ov EXCEPT !.ovr[v] = EntryFor(ov.ovr, v), !.n = @ + 1]
    /\ UNCHANGED toggleFrame

ToggleNext ==
    \/ \E f \in FeatureNames, raw \in {"true", "false"} : GlobalToggle(f, raw)
    \/ \E v \in ToggleVillages : VillageToggleUnknown(v)
    \/ \E v \in ToggleVillages, f \in FeatureNames, raw \in RawValues : VillageToggle(v, f, raw)

ToggleSpec == ToggleInit /\ [][ToggleNext]_vars

\* ------------------------------------------------------------------------
\* FnSpec: the planner's and the scavenger's computations on bounded inputs
\* ------------------------------------------------------------------------
\* highest building level and longest step list drawn
MaxLevel == 2
MaxSteps == 3
\* BuildingManager.run: max_queue, the number of slots of the construction queue
max_queue == 2
\* _calculate_resource_wait: the cap, in seconds, and the seconds of an hour
MaxWaitSeconds == 3600
HourSeconds == 3600

Buildings == {"main", "wood"}
SeqsUpTo(S, n) == UNION {[1..k -> S] : k \in 0..n}
BuildSteps == [building : Buildings, level : 1..MaxLevel]
LevelMaps == UNION {[D -> 0..MaxLevel] : D \in SUBSET Buildings}
None == <<>>

\* dict.get(key, 0)
GetOrZero(m, k) == IF k \in DOMAIN m THEN m[k] ELSE 0

RECURSIVE QueuedCounts(_, _)
QueuedCountsNone(queue, acc) == acc
\* _pick_next_building_sequential: queued_counts, one per queue occurrence
QueuedCounts(queue, acc) ==
    IF queue = <<>> THEN acc
    ELSE LET b == Head(queue) IN
         QueuedCounts(Tail(queue), (b :> (GetOrZero(acc, b) + 1)) @@ acc)

\* _pick_next_building_sequential: the walk over build_steps
RECURSIVE PickFrom(_, _, _)
PickFrom(steps, levels, counts) ==
    IF steps = <<>> THEN None
    ELSE LET step == Head(steps)
             current == GetOrZero(levels, step.building)
             queued == GetOrZero(counts, step.building)
         IN IF current + queued < step.level
            THEN <<step.building, current, step.level>>
            ELSE PickFrom(Tail(steps), levels, counts)

pick_next_building_sequential(steps, levels, queue) ==
    PickFrom(steps, levels, QueuedCounts(queue, <<>>))

\* resource amounts, costs and hourly production rates drawn
ResourceTypes == <<"wood", "stone", "iron">>
HaveValues == {0, 100}
NeedValues == {0, 100, 500}
RateValues == {-360, 0, 360, 700}

\* a non-negative rational number of seconds
Rat(n, d) == [n |-> n, d |-> d]
RatGreater(a, b) == a.n * b.d > b.n * a.d

CapWaitNone(w) == w
\* min(max_wait, 3600.0)
CapWait(w) == IF RatGreater(w, Rat(MaxWaitSeconds, 1)) THEN Rat(MaxWaitSeconds, 1) ELSE w

\* _calculate_resource_wait: the loop over wood, stone, iron from position i
RECURSIVE WaitFrom(_, _, _, _, _)
WaitFrom(i, have, need, rate, max_wait) ==
    IF i > Len(ResourceTypes) THEN CapWait(max_wait)
    ELSE LET r == ResourceTypes[i]
             deficit == need[r] - have[r]
         IN IF deficit <= 0 THEN WaitFrom(i + 1, have, need, rate, max_wait)
            ELSE IF rate[r] <= 0 THEN Rat(MaxWaitSeconds, 1)
            ELSE LET wait == Rat(deficit * HourSeconds, rate[r])
                 IN WaitFrom(i + 1, have, need, rate,
                             IF RatGreater(wait, max_wait) THEN wait ELSE max_wait)

calculate_resource_wait(have, need, rate) == WaitFrom(1, have, need, rate, Rat(0, 1))

ResNames == {ResourceTypes[i] : i \in DOMAIN ResourceTypes}

\* SCAVENGE_UNITS in list order (three of the seven), their carry in the game's
\* unit info, and carries.get(u, 25)
ScavengeUnits == <<"spear", "axe", "light">>
GameCarry == [spear |-> 25, axe |-> 10, light |-> 80]
DefaultCarry == 25
UnitNames == {ScavengeUnits[i] : i \in DOMAIN ScavengeUnits}
TroopCounts == {1, 7, 1000}
Tiers == 1..4
\* equal_runtime_weights: 1 / LOOT_RATIOS[tier] = 10, 4, 2, 4/3, here times 3
ScaledWeights == <<30, 12, 6, 4>>
\* LOOT_RATIOS 0.10, 0.25, 0.50, 0.75, here times 20
ScaledRatios == <<2, 5, 10, 15>>
RatioScale == 20

Pools == UNION {[D -> TroopCounts] : D \in SUBSET UnitNames}
\* unit_carries: the game's carry of the units the world config lists
CarryMaps == {[u \in D |-> GameCarry[u]] : D \in SUBSET UnitNames}

CarryOf(carries, u) == IF u \in DOMAIN carries THEN carries[u] ELSE DefaultCarry

\* sum(...) over a dict's values
RECURSIVE SumOf(_)
SumOf(f) ==
    IF DOMAIN f = {} THEN 0
    ELSE LET x == CHOOSE y \in DOMAIN f : TRUE
         IN f[x] + SumOf([z \in DOMAIN f \ {x} |-> f[z]])

UnitIndex(u) == CHOOSE i \in DOMAIN ScavengeUnits : ScavengeUnits[i] = u

\* sorted(remaining.keys(), key=carry, reverse=True): stable, ties in key order
RECURSIVE UnitsByCarry(_, _)
UnitsByCarry(S, carries) ==
    IF S = {} THEN <<>>
    ELSE LET u == CHOOSE x \in S : \A y \in S :
                    \/ CarryOf(carries, x) > CarryOf(carries, y)
                    \/ /\ CarryOf(carries, x) = CarryOf(carries, y)
                       /\ UnitIndex(x) <= UnitIndex(y)
         IN <<u>> \o UnitsByCarry(S \ {u}, carries)

\* sorted(option_weights.keys(), reverse=True)
RECURSIVE TiersDescending(_)
TiersDescending(S) ==
    IF S = {} THEN <<>>
    ELSE LET t == CHOOSE x \in S : \A y \in S : x >= y
         IN <<t>> \o TiersDescending(S \ {t})

TargetGapLowestWeight(total_carry, tier, filled, weight_sum) ==
    total_carry * ScaledWeights[1] - filled * weight_sum
\* allocate_by_ratio: gap = target - filled with target = total_carry *
\* option_weights[tier] / weight_sum, here times weight_sum
TargetGap(total_carry, tier, filled, weight_sum) ==
    total_carry * ScaledWeights[tier] - filled * weight_sum

\* allocate_by_ratio: the inner loop over the units for one tier; a is the record
\* of remaining troops and allocations, filled the carry placed in the tier
RECURSIVE FillUnits(_, _, _, _, _, _, _)
FillUnits(units, a, filled, tier, carries, total_carry, weight_sum) ==
    IF units = <<>> THEN a
    ELSE LET unit == Head(units)
             avail == a.remaining[unit]
             carry_per == CarryOf(carries, unit)
             gap == TargetGap(total_carry, tier, filled, weight_sum)
         IN IF avail <= 0 \/ carry_per <= 0
            THEN FillUnits(Tail(units), a, filled, tier, carries, total_carry, weight_sum)
            ELSE IF gap <= 0 THEN a
            ELSE LET floor == gap \div (weight_sum * carry_per)
                     take == IF avail < floor THEN avail ELSE floor
                 IN IF take > 0
                    THEN FillUnits(Tail(units),
                                   [remaining |-> [a.remaining EXCEPT ![unit] = @ - take],
                                    allocations |-> [a.allocations EXCEPT
                                                       ![tier] = (unit :> take) @@ @]],
                                   filled + take * carry_per,
                                   tier, carries, total_carry, weight_sum)
                    ELSE FillUnits(Tail(units), a, filled, tier, carries,
                                   total_carry, weight_sum)

\* allocate_by_ratio: the loop over the tiers, highest first, dump tier skipped
RECURSIVE FillTiers(_, _, _, _, _, _)
FillTiers(tiers, a, dump_tier, carries, total_carry, weight_sum) ==
    IF tiers = <<>> THEN a
    ELSE IF Head(tiers) = dump_tier
    THEN FillTiers(Tail(tiers), a, dump_tier, carries, total_carry, weight_sum)
    ELSE FillTiers(Tail(tiers),
                   FillUnits(UnitsByCarry(DOMAIN a.remaining, carries), a, 0,
                             Head(tiers), carries, total_carry, weight_sum),
                   dump_tier, carries, total_carry, weight_sum)

DumpNothing(a, dump_tier) == a.allocations
\* allocate_by_ratio: all remaining troops go to the lowest tier
DumpRemaining(a, dump_tier) ==
    [a.allocations EXCEPT ![dump_tier] =
        [u \in DOMAIN @ \cup {x \in DOMAIN a.remaining : a.remaining[x] > 0} |->
            GetOrZero(@, u) + GetOrZero(a.remaining, u)]]

allocate_by_ratio(available, tiers, carries) ==
    LET weight_sum == SumOf([t \in tiers |-> ScaledWeights[t]])
        pool == [u \in {x \in DOMAIN available \cap UnitNames : available[x] > 0} |->
                    available[u]]
        total_carry == SumOf([u \in DOMAIN pool |-> pool[u] * CarryOf(carries, u)])
    IN IF weight_sum <= 0 \/ pool = <<>> \/ total_carry <= 0 THEN <<>>
       ELSE LET dump_tier == CHOOSE t \in tiers : \A x \in tiers : t <= x
                filled == FillTiers(TiersDescending(tiers),
                                    [remaining |-> pool,
                                     allocations |-> [t \in tiers |-> <<>>]],
                                    dump_tier, carries, total_carry, weight_sum)
                allocations == DumpRemaining(filled, dump_tier)
            IN [t \in {x \in tiers : allocations[x] # <<>>} |-> allocations[t]]

FnInit ==
    /\ CoreAtRest
    /\ AuxIdle
    /\ wk = WakeIdle
    /\ cy = CycleIdle
    /\ bm = BuildIdle
    /\ ov = ToggleIdle
    /\ \/ \E S \in SeqsUpTo(BuildSteps, MaxSteps), L \in LevelMaps,
             Q \in SeqsUpTo(Buildings, max_queue) :
             fx = [kind |-> "pick_in", steps |-> S, levels |-> L, queue |-> Q]
       \/ \E h \in [ResNames -> HaveValues], c \in [ResNames -> NeedValues],
             p \in [ResNames -> RateValues] :
             fx = [kind |-> "wait_in", have |-> h, need |-> c, rate |-> p]
       \/ \E P \in Pools, T \in (SUBSET Tiers) \ {{}}, C \in CarryMaps :
             fx = [kind |-> "alloc_in", pool |-> P, tiers |-> T, carries |-> C]

fnFrame == <<coreVars, wk, cy, bm, ov, auxVars>>

\* a call of _pick_next_building in sequential mode
FnPick ==
    /\ fx.kind = "pick_in"
    /\ fx' = [kind |-> "pick", steps |-> fx.steps, levels |-> fx.levels, queue |-> fx.queue,
              out |-> pick_next_building_sequential(fx.steps, fx.levels, fx.queue)]
    /\ UNCHANGED fnFrame

\* a call of _calculate_resource_wait
FnWait ==
    /\ fx.kind = "wait_in"
    /\ fx' = [kind |-> "wait", have |-> fx.have, need |-> fx.need, rate |-> fx.rate,
              out |-> calculate_resource_wait(fx.have, fx.need, fx.rate)]
    /\ UNCHANGED fnFrame

\* a call of allocate_by_ratio with the weights of equal_runtime_weights
FnAllocate ==
    /\ fx.kind = "alloc_in"
    /\ fx' = [kind |-> "alloc", pool |-> fx.pool, tiers |-> fx.tiers, carries |-> fx.carries,
              out |-> allocate_by_ratio(fx.pool, fx.tiers, fx.carries)]
    /\ UNCHANGED fnFrame

FnNext == FnPick \/ FnWait \/ FnAllocate

FnSpec == FnInit /\ [][FnNext]_vars

\* ------------------------------------------------------------------------
\* BuildSpec: one BuildingManager.run against the game's construction queue
\* ------------------------------------------------------------------------
QueueFullNever(n) == FALSE
\* len(queue) >= max_queue in run, len(queue) >= 2 in upgrade_building
QueueFull(n) == n >= max_queue

BuildInit ==
    /\ CoreAtRest
    /\ AuxIdle
    /\ wk = WakeIdle
    /\ cy = CycleIdle
    /\ fx = FnIdle
    /\ ov = ToggleIdle
    /\ \E g \in 0..max_queue :
          bm = [pc |-> "start", game |-> g, obs |-> 0, q0 |-> 0, seen |-> 0,
                sub |-> 0, att |-> 0, fin |-> FALSE, rej |-> FALSE]

buildFrame == <<coreVars, wk, cy, fx, ov, auxVars>>

\* run: the gates, then get_hq_state, which returns the queue or raises
BuildGetState ==
    /\ bm.pc = "start"
    /\ \/ bm' = [bm EXCEPT !.pc = "loop", !.obs = bm.game, !.q0 = bm.game]
       \/ bm' = [bm EXCEPT !.pc = "done"]
    /\ UNCHANGED buildFrame

\* run: one pass of for _attempt in range(max_queue) up to the order; the pick,
\* the affordability test and the availability test let it through or break
BuildAttempt ==
    /\ bm.pc = "loop"
    /\ IF bm.att >= max_queue \/ QueueFull(bm.obs)
       THEN bm' = [bm EXCEPT !.pc = "done"]
       ELSE \E go \in BOOLEAN :
               bm' = [bm EXCEPT !.pc = IF go THEN "order" ELSE "done"]
    /\ UNCHANGED buildFrame

\* upgrade_building: navigate, read the queue, raise when full, else click; the
\* game queues the upgrade or rejects it
BuildOrder ==
    /\ bm.pc = "order"
    /\ IF QueueFull(bm.game)
       THEN bm' = [bm EXCEPT !.pc = "done", !.obs = bm.game]
       ELSE \E clicked, queued \in BOOLEAN :
               IF clicked
               THEN bm' = [bm EXCEPT !.pc = "refresh", !.obs = bm.game, !.seen = bm.game,
                                     !.sub = @ + 1,
                                     !.game = IF queued /\ @ < max_queue THEN @ + 1 ELSE @,
                                     !.rej = @ \/ ~queued]
               ELSE /\ ~queued
                    /\ bm' = [bm EXCEPT !.pc = "done", !.obs = bm.game]
    /\ UNCHANGED buildFrame

\* run: state = await get_hq_state after a successful order
BuildRefresh ==
    /\ bm.pc = "refresh"
    /\ \/ bm' = [bm EXCEPT !.pc = "loop", !.obs = bm.game, !.att = @ + 1]
       \/ bm' = [bm EXCEPT !.pc = "done"]
    /\ UNCHANGED buildFrame

\* the game finishes a queued construction while the manager is running
GameCompletes ==
    /\ bm.pc \in {"loop", "order", "refresh"}
    /\ bm.game > 0
    /\ bm' = [bm EXCEPT !.game = @ - 1, !.fin = TRUE]
    /\ UNCHANGED buildFrame

BuildNext == BuildGetState \/ BuildAttempt \/ BuildOrder \/ BuildRefresh \/ GameCompletes

BuildSpec == BuildInit /\ [][BuildNext]_vars

\* ------------------------------------------------------------------------
\* AutoSkipSpec: _process_village for village "a", then for village "b", whose
\* panel build queue is pruned by _auto_remove_completed_steps
\* ------------------------------------------------------------------------
\* longest panel build queue drawn
MaxPanelSteps == 2
MaxTier == 2
SkipVillages == <<"a", "b">>

\* _auto_remove_completed_steps: the steps kept for the given level map
Remaining(steps, levels) ==
    LET Keep(st) == GetOrZero(levels, st.building) < st.level
    IN SelectSeq(steps, Keep)

AutoSkipInit ==
    /\ CoreAtRest
    /\ AuxIdle
    /\ wk = WakeIdle
    /\ cy = CycleIdle
    /\ fx = FnIdle
    /\ ov = ToggleIdle
    /\ \E la \in LevelMaps, lb \in LevelMaps, S \in SeqsUpTo(BuildSteps, MaxPanelSteps) :
          bm = [pc |-> "cycle", i |-> 1, last |-> <<>>,
                lvl |-> [a |-> la, b |-> lb], steps |-> [a |-> <<>>, b |-> S],
                before |-> <<>>, read |-> FALSE, post |-> FALSE, saved |-> FALSE]

\* run_cycle of the village: BuildingManager.run reads the village's levels into
\* _last_levels, or is not run / returns at a gate, or run_cycle raises
SkipRunCycle ==
    /\ bm.pc = "cycle"
    /\ LET v == SkipVillages[bm.i] IN
       \/ bm' = [bm EXCEPT !.pc = "post", !.last = bm.lvl[v], !.read = TRUE]
       \/ bm' = [bm EXCEPT !.pc = "post"]
       \/ bm' = [bm EXCEPT !.pc = "next"]
    /\ UNCHANGED buildFrame

\* _auto_remove_completed_steps of the village
SkipAutoRemove ==
    /\ bm.pc = "post"
    /\ LET v == SkipVillages[bm.i]
           levels == bm.last
           steps == bm.steps[v]
           remaining == Remaining(steps, levels)
       IN IF levels = <<>> \/ steps = <<>>
          THEN bm' = [bm EXCEPT !.pc = "next", !.post = TRUE, !.before = steps]
          ELSE IF Len(remaining) < Len(steps)
          THEN bm' = [bm EXCEPT !.pc = "next", !.post = TRUE, !.before = steps,
                                !.steps[v] = remaining, !.saved = TRUE]
          ELSE bm' = [bm EXCEPT !.pc = "next", !.post = TRUE, !.before = steps]
    /\ UNCHANGED buildFrame

\* _main_loop: on to the next village
SkipNextVillage ==
    /\ bm.pc = "next"
    /\ IF bm.i < Len(SkipVillages)
       THEN bm' = [bm EXCEPT !.pc = "cycle", !.i = @ + 1, !.read = FALSE, !.saved = FALSE,
                             !.post = FALSE, !.before = <<>>]
       ELSE bm' = [bm EXCEPT !.pc = "end"]
    /\ UNCHANGED buildFrame

AutoSkipNext == SkipRunCycle \/ SkipAutoRemove \/ SkipNextVillage

AutoSkipSpec == AutoSkipInit /\ [][AutoSkipNext]_vars

\* ------------------------------------------------------------------------
\* ScavSpec: one ScavengeManager.run for one village (managers/scavenge_manager.py)
\* against the game's scavenge screen.  A step runs to the next await: the
\* state read, the return-time fetch, the brief sleep with the re-read, and
\* each send.  Times are unix seconds; the cycle starts at Epoch.
\* ------------------------------------------------------------------------
ScavTiers == 1..MaxTier
\* _run_ratio: "if wait <= 90" and "asyncio.sleep(wait + 5)"
BriefWait == 90
WaitSlack == 5
\* time.time() when the cycle starts
Epoch == 1000
\* the game's option of a tier: locked, free, or running with its return in 60 s / 300 s
OptionStates == {"locked", "free", "soon", "late"}
ReturnTime(o) == IF o = "soon" THEN Epoch + 60 ELSE Epoch + 300
\* troops on the scavenge page: two scavengeable units and one that is not
PageUnits == {"spear", "light", "ram"}
IdleMaps == {[spear |-> s, light |-> l, ram |-> r] : s \in {0, 3, 10}, l \in {0, 4}, r \in {0, 1}}
ReserveMaps == {<<>>, [spear |-> 5], [light |-> 4], [spear |-> 5, light |-> 4]}
ExcludeSets == {{}, {"light"}}
\* self.next_return before the cycle: never set, in the past, or left by another village
StaleReturns == {0, Epoch - 100, Epoch + 60, Epoch + 300}
\* ScavengingConfig: enabled, mode, dry_run (ratio mode), target_minutes (time_based)
ScavConfigs ==
    {[enabled |-> FALSE, mode |-> "ratio", dry_run |-> FALSE, target_minutes |-> 120]}
    \cup {[enabled |-> TRUE, mode |-> "ratio", dry_run |-> d, target_minutes |-> 120] :
             d \in BOOLEAN}
    \cup {[enabled |-> TRUE, mode |-> m, dry_run |-> FALSE, target_minutes |-> 120] :
             m \in {"send_all", "max_efficiency"}}
    \cup {[enabled |-> TRUE, mode |-> "time_based", dry_run |-> FALSE, target_minutes |-> tm] :
             tm \in {1, 120}}

\* dict.get(u, 0)
CountOf(d, u) == IF u \in DOMAIN d THEN d[u] ELSE 0
\* a dict comprehension with "if c > 0"
Positive(d) == [u \in {x \in DOMAIN d : d[x] > 0} |-> d[u]]
MaxOf(S) == CHOOSE x \in S : \A y \in S : x >= y

\* the options the page shows as running at a time
RunningAt(opt, now) ==
    {t \in DOMAIN opt : opt[t] \in {"soon", "late"} /\ ReturnTime(opt[t]) > now}
UnlockedOf(opt) == {t \in DOMAIN opt : opt[t] # "locked"}

\* _filter_troops without the reserve
filter_troops_no_reserve(idle_troops, exclude, reserve) ==
    Positive([u \in (UnitNames \ exclude) |-> CountOf(idle_troops, u)])
\* ScavengeManager._filter_troops
filter_troops(idle_troops, exclude, reserve) ==
    Positive([u \in (UnitNames \ exclude) |-> CountOf(idle_troops, u) - CountOf(reserve, u)])

\* ScavengeManager.seconds_until_return
seconds_until_return(next_return, now) ==
    IF next_return <= 0 THEN 0
    ELSE IF next_return - now > 0 THEN next_return - now ELSE 0

\* ScavengeManager._allocate_send_all
allocate_send_all(available, remaining_tiers) ==
    IF remaining_tiers <= 1 THEN available
    ELSE Positive([u \in DOMAIN available |-> available[u] \div remaining_tiers])

\* ScavengeScreen.calculate_duration: int(total * 10 * factor), factor 1, 0.75, 0.5, 0.25
screen_calculate_duration(troops, tier) ==
    LET quarters == IF tier = 1 THEN 4 ELSE IF tier = 2 THEN 3 ELSE IF tier = 3 THEN 2
                    ELSE IF tier = 4 THEN 1 ELSE 4
    IN (SumOf(troops) * 10 * quarters) \div 4

\* ScavengeManager._allocate_time_based
allocate_time_based(available, tier, remaining_tiers, target_minutes) ==
    LET target_seconds == target_minutes * 60
        first == allocate_send_all(available, remaining_tiers)
        estimated == screen_calculate_duration(first, tier)
        scaled == [u \in DOMAIN first |->
                     LET c == (first[u] * target_seconds) \div estimated
                         m == IF c > 1 THEN c ELSE 1
                     IN IF m < CountOf(available, u) THEN m ELSE CountOf(available, u)]
    IN IF estimated > 0 THEN Positive(scaled) ELSE Positive(first)

\* ScavengeManager._allocate_max_efficiency: weights 0.1 .. 0.4, 0.25 for another tier
allocate_max_efficiency(available, tier) ==
    Positive([u \in DOMAIN available |->
                LET c == IF tier \in 1..4 THEN (available[u] * tier) \div 10
                         ELSE available[u] \div 4
                IN IF c > 1 THEN c ELSE 1])

\* ScavengeManager._allocate_troops
allocate_troops(available, tier, remaining_tiers, cfg, exclude, reserve) ==
    LET scavenge_available == filter_troops(available, exclude, reserve)
    IN IF scavenge_available = <<>> THEN <<>>
       ELSE IF cfg.mode = "send_all" THEN allocate_send_all(scavenge_available, remaining_tiers)
       ELSE IF cfg.mode = "time_based"
            THEN allocate_time_based(scavenge_available, tier, remaining_tiers,
                                     cfg.target_minutes)
       ELSE allocate_max_efficiency(scavenge_available, tier)

\* the check after the brief wait, left out
StillRunningIgnored(running_tiers, unlocked_tiers) == FALSE
\* _run_ratio: "if running_tiers & unlocked_tiers" after the re-read
StillRunning(running_tiers, unlocked_tiers) == running_tiers \cap unlocked_tiers # {}

ScavInit ==
    /\ CoreAtRest
    /\ wk = WakeIdle
    /\ cy = CycleIdle
    /\ bm = BuildIdle
    /\ fx = FnIdle
    /\ ov = ToggleIdle
    /\ ps = PanelIdle
    /\ disk = FilesIdle
    /\ ws = SocketIdle
    /\ \E cfg \in ScavConfigs, opt \in [ScavTiers -> OptionStates], idle \in IdleMaps,
          reserve \in ReserveMaps, exclude \in ExcludeSets :
          sc = [pc |-> "start", cfg |-> cfg, exclude |-> exclude, reserve |-> reserve,
                opt |-> opt, opt0 |-> opt, idle |-> idle, now |-> Epoch, next_return |-> 0,
                unlocked |-> {}, wait |-> -1, reread |-> FALSE, seen |-> idle,
                alloc |-> <<>>, queue |-> <<>>, remaining |-> <<>>, navail |-> 0,
                sent |-> 0, result |-> -1, dispatched |-> <<>>, filled |-> <<>>,
                busy |-> {}]

scavFrame == <<coreVars, wk, cy, bm, fx, ov, ps, disk, ws>>

\* _run_ratio from "if idle_troops.total() == 0" to the first send or the return
RatioPlan(rec, idle_troops) ==
    LET available == filter_troops([u \in UnitNames \cap DOMAIN idle_troops |-> idle_troops[u]],
                                   rec.exclude, rec.reserve)
        allocations == allocate_by_ratio(available, rec.unlocked, GameCarry)
    IN IF SumOf(idle_troops) = 0 \/ available = <<>> \/ allocations = <<>>
       THEN [rec EXCEPT !.pc = "done", !.result = 0, !.seen = idle_troops]
       ELSE IF rec.cfg.dry_run
       THEN [rec EXCEPT !.pc = "done", !.result = Cardinality(DOMAIN allocations),
                        !.filled = allocations, !.seen = idle_troops, !.alloc = allocations]
       ELSE [rec EXCEPT !.pc = "send", !.alloc = allocations, !.seen = idle_troops,
                        !.queue = TiersDescending(DOMAIN allocations)]

\* run, and _run_ratio / _run_legacy up to the first await after get_state
ScavStart ==
    /\ sc.pc = "start"
    /\ \E stale \in StaleReturns :
        LET rec == [sc EXCEPT !.next_return = stale]
            unlocked_tiers == UnlockedOf(sc.opt)
            running_tiers == RunningAt(sc.opt, sc.now)
            available_tiers == {t \in DOMAIN sc.opt : sc.opt[t] # "locked" /\ t \notin running_tiers}
        IN sc' = IF ~sc.cfg.enabled THEN [rec EXCEPT !.pc = "done", !.result = 0]
                 ELSE IF sc.cfg.mode = "ratio"
                 THEN IF unlocked_tiers = {} THEN [rec EXCEPT !.pc = "done", !.result = 0]
                      ELSE IF running_tiers \cap unlocked_tiers # {}
                      THEN [rec EXCEPT !.pc = "fetch", !.unlocked = unlocked_tiers]
                      ELSE RatioPlan([rec EXCEPT !.unlocked = unlocked_tiers], sc.idle)
                 ELSE IF SumOf(sc.idle) = 0 \/ available_tiers = {}
                      THEN [rec EXCEPT !.pc = "done", !.result = 0]
                      ELSE [rec EXCEPT !.pc = "legacy", !.remaining = sc.idle,
                                       !.navail = Cardinality(available_tiers),
                                       !.queue = TiersDescending(available_tiers)]
    /\ UNCHANGED scavFrame

\* _update_return_times, seconds_until_return and the branch on "wait <= 90"
ScavFetch ==
    /\ sc.pc = "fetch"
    /\ \E fetched \in BOOLEAN :
        LET relevant == {ReturnTime(sc.opt[t]) : t \in RunningAt(sc.opt, sc.now) \cap sc.unlocked}
            nr == IF fetched /\ relevant # {} THEN MaxOf(relevant) ELSE sc.next_return
            wait == seconds_until_return(nr, sc.now)
        IN sc' = IF wait <= BriefWait
                 THEN [sc EXCEPT !.pc = "sleep", !.next_return = nr, !.wait = wait]
                 ELSE [sc EXCEPT !.pc = "done", !.next_return = nr, !.wait = wait, !.result = 0]
    /\ UNCHANGED scavFrame

\* asyncio.sleep(wait + 5), the second get_state and what follows it.  The page
\* shows at least the missions that have not returned; the troops of a returned
\* mission are idle again.
ScavReread ==
    /\ sc.pc = "sleep"
    /\ LET later == sc.now + sc.wait + WaitSlack
           back == RunningAt(sc.opt, sc.now) \ RunningAt(sc.opt, later)
       IN \E shown \in SUBSET RunningAt(sc.opt, sc.now) :
            /\ RunningAt(sc.opt, later) \subseteq shown
            /\ LET opt2 == [t \in DOMAIN sc.opt |->
                              IF t \in back /\ t \notin shown THEN "free" ELSE sc.opt[t]]
                   idle2 == IF back \ shown = {} THEN sc.idle
                            ELSE [sc.idle EXCEPT !["spear"] = @ + 5]
                   rec == [sc EXCEPT !.now = later, !.reread = TRUE, !.opt = opt2,
                                     !.idle = idle2]
               IN sc' = IF StillRunning(shown, sc.unlocked)
                        THEN [rec EXCEPT !.pc = "done", !.result = 0, !.seen = idle2]
                        ELSE RatioPlan(rec, idle2)
    /\ UNCHANGED scavFrame

\* one send_scavenge of the ratio loop; after the last one the return times are
\* fetched again when something was sent
ScavSend ==
    /\ sc.pc = "send"
    /\ \E success \in BOOLEAN, fetched \in BOOLEAN :
        LET tier == Head(sc.queue)
            sent == IF success THEN sc.sent + 1 ELSE sc.sent
            opt2 == IF success THEN [sc.opt EXCEPT ![tier] = "late"] ELSE sc.opt
            last == Tail(sc.queue) = <<>>
            relevant == {ReturnTime(opt2[t]) : t \in RunningAt(opt2, sc.now) \cap sc.unlocked}
        IN sc' = [sc EXCEPT
                    !.queue = Tail(sc.queue),
                    !.sent = sent,
                    !.opt = opt2,
                    !.busy = IF success /\ sc.dispatched = <<>>
                             THEN RunningAt(sc.opt, sc.now) \cap sc.unlocked ELSE @,
                    !.dispatched = IF success THEN (tier :> sc.alloc[tier]) @@ @ ELSE @,
                    !.next_return = IF last /\ sent > 0 /\ fetched /\ relevant # {}
                                    THEN MaxOf(relevant) ELSE @,
                    !.result = IF last THEN sent ELSE @,
                    !.pc = IF last THEN "done" ELSE "send"]
    /\ UNCHANGED scavFrame

\* one iteration of the loop of _run_legacy
ScavLegacyTier ==
    /\ sc.pc = "legacy"
    /\ \E success \in BOOLEAN :
        LET tier == Head(sc.queue)
            allocation == allocate_troops(sc.remaining, tier, sc.navail - sc.sent, sc.cfg,
                                          sc.exclude, sc.reserve)
            skip == allocation = <<>> \/ SumOf(allocation) = 0
            ok == ~skip /\ success
            sent == IF ok THEN sc.sent + 1 ELSE sc.sent
            last == Tail(sc.queue) = <<>>
        IN sc' = [sc EXCEPT
                    !.queue = Tail(sc.queue),
                    !.sent = sent,
                    !.opt = IF ok THEN [@ EXCEPT ![tier] = "late"] ELSE @,
                    !.dispatched = IF ok THEN (tier :> allocation) @@ @ ELSE @,
                    !.remaining = IF ok
                                  THEN [u \in DOMAIN @ |->
                                          IF @[u] - CountOf(allocation, u) > 0
                                          THEN @[u] - CountOf(allocation, u) ELSE 0]
                                  ELSE @,
                    !.result = IF last THEN sent ELSE @,
                    !.pc = IF last THEN "done" ELSE "legacy"]
    /\ UNCHANGED scavFrame

ScavNext == ScavStart \/ ScavFetch \/ ScavReread \/ ScavSend \/ ScavLegacyTier

ScavSpec == ScavInit /\ [][ScavNext]_vars

\* ------------------------------------------------------------------------
\* FillSpec: one TroopManager.run_fill_scavenge (managers/troop_manager.py).
\* get_scavenge_remaining returns a float: times are counted in units of
\* 1/TimeScale second, train_time (rounded by get_training_info) and
\* queue_seconds in whole seconds.
\* ------------------------------------------------------------------------
TimeScale == 2
FillUnitLists == {<<>>, <<"spear">>, <<"axe", "spear">>}
\* seconds_until_return at the call, in 1/TimeScale s: 0 s, 30 s, 30.5 s, 31 s, 100 s, 100.5 s, 600.5 s
RemainingValues == {0, 60, 61, 62, 200, 201, 1201}
TrainTimes == {0, 1, 7, 60}
QueueSeconds == {0, 10, 85, 600}
Affordable == {0, 1, 5, 1000}
\* BarracksScreen.get_training_info
TrainingInfos ==
    {[barracks_available |-> FALSE, train_time |-> 0, max_affordable |-> 0, queue_seconds |-> 0]}
    \cup {[barracks_available |-> TRUE, train_time |-> t, max_affordable |-> m,
           queue_seconds |-> q] : t \in TrainTimes, m \in Affordable, q \in QueueSeconds}

\* the batch without the unit that passes the return
FillBatchShort(gap, train_time) ==
    LET n == gap \div (train_time * TimeScale) IN IF n > 1 THEN n ELSE 1
\* run_fill_scavenge: max(1, int(gap / train_time) + 1), gap in 1/TimeScale s
FillBatch(gap, train_time) ==
    LET n == gap \div (train_time * TimeScale) + 1 IN IF n > 1 THEN n ELSE 1

QueueSufficientAtReturn(queue, remaining) == queue >= remaining
\* run_fill_scavenge: "if queue_seconds >= remaining - 30", both in 1/TimeScale s
QueueSufficient(queue, remaining) == queue >= remaining - 30 * TimeScale

FillInit ==
    /\ CoreAtRest
    /\ wk = WakeIdle
    /\ cy = CycleIdle
    /\ bm = BuildIdle
    /\ fx = FnIdle
    /\ ov = ToggleIdle
    /\ ps = PanelIdle
    /\ disk = FilesIdle
    /\ ws = SocketIdle
    /\ \E units \in FillUnitLists, remaining \in RemainingValues :
          sc = [pc |-> "fill_start", units |-> units, remaining |-> remaining,
                info |-> <<>>, uncapped |-> 0, batch |-> 0, submitted |-> FALSE,
                total_queue |-> 0, timer |-> -1]

\* run_fill_scavenge up to "await self.barracks.get_training_info"
FillStart ==
    /\ sc.pc = "fill_start"
    /\ sc' = IF sc.units = <<>> \/ sc.remaining <= 30 * TimeScale
             THEN [sc EXCEPT !.pc = "fill_done"]
             ELSE [sc EXCEPT !.pc = "fill_info"]
    /\ UNCHANGED scavFrame

\* the training info arrives: the early returns and the batch, up to
\* "await self.barracks.train_units"
FillInfo ==
    /\ sc.pc = "fill_info"
    /\ \E info \in TrainingInfos :
        LET queue == info.queue_seconds * TimeScale
            gap == sc.remaining - queue
            uncapped == FillBatch(gap, info.train_time)
        IN sc' = IF \/ ~info.barracks_available
                    \/ QueueSufficient(queue, sc.remaining)
                    \/ info.train_time <= 0
                    \/ info.max_affordable <= 0
                 THEN [sc EXCEPT !.pc = "fill_done", !.info = info]
                 ELSE [sc EXCEPT !.pc = "fill_train", !.info = info, !.uncapped = uncapped,
                                 !.batch = IF uncapped < info.max_affordable THEN uncapped
                                           ELSE info.max_affordable]
    /\ UNCHANGED scavFrame

\* train_units returns; on success the queue timer is set to the end of the queue
FillTrain ==
    /\ sc.pc = "fill_train"
    /\ \E success \in BOOLEAN :
        LET total_queue == (sc.info.queue_seconds + sc.batch * sc.info.train_time) * TimeScale
        IN sc' = IF success
                 THEN [sc EXCEPT !.pc = "fill_done", !.submitted = TRUE,
                                 !.total_queue = total_queue, !.timer = total_queue]
                 ELSE [sc EXCEPT !.pc = "fill_done"]
    /\ UNCHANGED scavFrame

FillNext == FillStart \/ FillInfo \/ FillTrain

FillSpec == FillInit /\ [][FillNext]_vars

\* ------------------------------------------------------------------------
\* LogSpec: PanelStateStore.add_log (core/panel_state.py).  An entry is
\* modelled by the number of the call that inserted it.
\* ------------------------------------------------------------------------
MaxLogs == 203
LogCap == 200

\* a trim that keeps the head of the list
KeepOldest(logs, cap) == IF Len(logs) > cap THEN SubSeq(logs, 1, cap) ELSE logs
\* add_log: "if len(self.logs) > 200: self.logs = self.logs[-200:]"
KeepNewest(logs, cap) ==
    IF Len(logs) > cap THEN SubSeq(logs, Len(logs) - cap + 1, Len(logs)) ELSE logs

LogInit ==
    /\ CoreAtRest
    /\ wk = WakeIdle
    /\ cy = CycleIdle
    /\ bm = BuildIdle
    /\ fx = FnIdle
    /\ ov = ToggleIdle
    /\ sc = ScavIdle
    /\ disk = FilesIdle
    /\ ws = SocketIdle
    /\ ps = [pc |-> "logs", logs |-> <<>>, n |-> 0]

panelFrame == <<coreVars, wk, cy, bm, fx, ov, sc, disk, ws>>

AddLog ==
    /\ ps.pc = "logs"
    /\ ps.n < MaxLogs
    /\ ps' = [ps EXCEPT !.n = ps.n + 1,
                        !.logs = KeepNewest(Append(ps.logs, ps.n + 1), LogCap)]
    /\ UNCHANGED panelFrame

LogNext == AddLog

LogSpec == LogInit /\ [][LogNext]_vars

\* ------------------------------------------------------------------------
\* TimerSpec: the timers of PanelStateStore (set_timer, clear_timer,
\* to_json_dict) and APIPanel.update_timer as the orchestrator calls it, with
\* the clock.  ops is the list of the calls made so far.
\* ------------------------------------------------------------------------
MaxTimerOps == 3
Horizon == 2
TimerIds == {"next_cycle", "farm_next"}
TimerLabels == {"Next Cycle", "Next Farm Run"}
Stamps == 1..Horizon

\* to_json_dict without the filter
ActiveTimersAll(timers, now) == timers
\* to_json_dict: active_timers
ActiveTimers(timers, now) ==
    [tid \in {t \in DOMAIN timers : timers[t].end_ts > now} |-> timers[tid]]

\* set_timer: self.timers[timer_id] = TimerState(...)
set_timer(timers, timer_id, label, end_ts) ==
    [tid \in DOMAIN timers \cup {timer_id} |->
        IF tid = timer_id THEN [label |-> label, end_ts |-> end_ts] ELSE timers[tid]]
\* clear_timer: self.timers.pop(timer_id, None)
clear_timer(timers, timer_id) == [tid \in DOMAIN timers \ {timer_id} |-> timers[tid]]

TimerInit ==
    /\ CoreAtRest
    /\ wk = WakeIdle
    /\ cy = CycleIdle
    /\ bm = BuildIdle
    /\ fx = FnIdle
    /\ ov = ToggleIdle
    /\ sc = ScavIdle
    /\ disk = FilesIdle
    /\ ws = SocketIdle
    /\ ps = [pc |-> "timers", timers |-> <<>>, now |-> 0, ops |-> <<>>,
             json |-> <<>>, at |-> -1, event |-> <<>>]

\* PanelStateStore.set_timer with any end_ts
SetTimer ==
    /\ ps.pc = "timers"
    /\ Len(ps.ops) < MaxTimerOps
    /\ \E tid \in TimerIds, label \in TimerLabels, end_ts \in Stamps :
          ps' = [ps EXCEPT !.timers = set_timer(ps.timers, tid, label, end_ts),
                           !.ops = Append(@, [op |-> "set", id |-> tid, label |-> label,
                                              end_ts |-> end_ts]),
                           !.json = <<>>, !.at = -1, !.event = <<>>]
    /\ UNCHANGED panelFrame

\* APIPanel.update_timer: set_timer and the "timer" broadcast; the orchestrator
\* passes time.time() plus a positive delay
UpdateTimer ==
    /\ ps.pc = "timers"
    /\ Len(ps.ops) < MaxTimerOps
    /\ \E tid \in TimerIds, end_ts \in Stamps :
          /\ end_ts > ps.now
          /\ ps' = [ps EXCEPT !.timers = set_timer(ps.timers, tid, "Next Cycle", end_ts),
                              !.ops = Append(@, [op |-> "set", id |-> tid,
                                                 label |-> "Next Cycle", end_ts |-> end_ts]),
                              !.json = <<>>, !.at = -1,
                              !.event = [id |-> tid, label |-> "Next Cycle", end_ts |-> end_ts]]
    /\ UNCHANGED panelFrame

ClearTimer ==
    /\ ps.pc = "timers"
    /\ Len(ps.ops) < MaxTimerOps
    /\ \E tid \in TimerIds :
          ps' = [ps EXCEPT !.timers = clear_timer(ps.timers, tid),
                           !.ops = Append(@, [op |-> "clear", id |-> tid, label |-> "",
                                              end_ts |-> 0]),
                           !.json = <<>>, !.at = -1, !.event = <<>>]
    /\ UNCHANGED panelFrame

\* time.time() advances
ClockTick ==
    /\ ps.pc = "timers"
    /\ ps.now < Horizon
    /\ ps' = [ps EXCEPT !.now = ps.now + 1, !.json = <<>>, !.at = -1, !.event = <<>>]
    /\ UNCHANGED panelFrame

\* to_json_dict()["timers"]
ProjectTimers ==
    /\ ps.pc = "timers"
    /\ ps.at = -1
    /\ ps' = [ps EXCEPT !.json = ActiveTimers(ps.timers, ps.now), !.at = ps.now,
                        !.event = <<>>]
    /\ UNCHANGED panelFrame

TimerNext == SetTimer \/ UpdateTimer \/ ClearTimer \/ ClockTick \/ ProjectTimers

TimerSpec == TimerInit /\ [][TimerNext]_vars

\* ------------------------------------------------------------------------
\* PersistSpec: build_queues.json and toggle_states.json (app.py).  A dict is a
\* sequence of <<key, value>> pairs in insertion order.  A file is absent, whole
\* (the text of a finished write) or torn (write_text opened and truncated it
\* and the process died before the text was complete).  The text keeps the
\* order of the dict; integers are written as digit strings.
\* ------------------------------------------------------------------------
MaxEdits == 3
PersistVillages == {7, 12}
PersistBuildings == {"main", "wood"}
PersistLevels == {1, 30}
ToggleOrder == <<"building", "farming", "scavenging", "troops">>

RECURSIVE DigitsOf(_)
\* str(vid), and the digits json.dumps writes for an int
DigitsOf(n) == IF n < 10 THEN <<n>> ELSE DigitsOf(n \div 10) \o <<n % 10>>

RECURSIVE ParseDigits(_)
\* a parser that reads the last digit only
ParseLastDigit(d) == d[Len(d)]
\* int(vid), and the int json.loads reads
ParseDigits(d) ==
    IF Len(d) = 1 THEN d[1]
    ELSE ParseDigits(SubSeq(d, 1, Len(d) - 1)) * 10 + d[Len(d)]

DictHas(d, k) == \E i \in DOMAIN d : d[i][1] = k
DictIndex(d, k) == CHOOSE i \in DOMAIN d : d[i][1] = k
DictGet(d, k, default) == IF DictHas(d, k) THEN d[DictIndex(d, k)][2] ELSE default
\* d[k] = v: in place for a key that is there, at the end for a new one
DictSet(d, k, v) ==
    IF DictHas(d, k) THEN [d EXCEPT ![DictIndex(d, k)] = <<k, v>>] ELSE Append(d, <<k, v>>)

\* _save_build_queues: {str(vid): steps}, json.dumps
DumpBuildQueues(build_queues) ==
    [i \in DOMAIN build_queues |->
        <<DigitsOf(build_queues[i][1]),
          [j \in DOMAIN build_queues[i][2] |->
              <<build_queues[i][2][j].building, DigitsOf(build_queues[i][2][j].level)>>]>>]
\* _load_build_queues: json.loads, {int(vid): steps}
ParseBuildQueues(text) ==
    [i \in DOMAIN text |->
        <<ParseDigits(text[i][1]),
          [j \in DOMAIN text[i][2] |->
              [building |-> text[i][2][j][1], level |-> ParseDigits(text[i][2][j][2])]]>>]
\* _save_toggle_states: json.dumps of a dict of bool
DumpToggles(toggle_states) ==
    [i \in DOMAIN toggle_states |->
        <<toggle_states[i][1], IF toggle_states[i][2] THEN "true" ELSE "false">>]
\* _load_toggle_states: json.loads
ParseToggles(text) == [i \in DOMAIN text |-> <<text[i][1], text[i][2] = "true">>]

Absent == [state |-> "absent", text |-> <<>>]
Whole(text) == [state |-> "whole", text |-> text]
\* what a write that did not finish can leave: the empty file, or the text
\* without its end
TornFiles(text) == {[state |-> "torn", text |-> SubSeq(text, 1, k)] :
                       k \in {0, Len(text) - 1} \cap Nat}
                   \cup {[state |-> "torn", text |-> <<>>]}

\* _load_build_queues into a fresh PanelStateStore
LoadBuildQueues(file) == IF file.state = "whole" THEN ParseBuildQueues(file.text) ELSE <<>>
\* _load_toggle_states and the update_toggles of _setup_panel
LoadToggles(file) ==
    LET saved == IF file.state = "whole" THEN ParseToggles(file.text) ELSE <<>>
    IN [i \in DOMAIN ToggleOrder |-> <<ToggleOrder[i], DictGet(saved, ToggleOrder[i], FALSE)>>]

NoSnapshot == [bq |-> <<>>, tg |-> <<>>, before_bq |-> <<>>, before_tg |-> <<>>,
               file_bq |-> Absent, file_tg |-> Absent, crashed |-> FALSE]

PersistInit ==
    /\ CoreAtRest
    /\ wk = WakeIdle
    /\ cy = CycleIdle
    /\ bm = BuildIdle
    /\ fx = FnIdle
    /\ ov = ToggleIdle
    /\ sc = ScavIdle
    /\ ps = PanelIdle
    /\ ws = SocketIdle
    /\ disk = [pc |-> "up", build_queues |-> <<>>, toggle_states |-> LoadToggles(Absent),
               file_bq |-> Absent, file_tg |-> Absent, edits |-> 0,
               before_bq |-> <<>>, before_tg |-> <<>>,
               fresh |-> FALSE, resaved |-> FALSE, old |-> NoSnapshot]

persistFrame == <<coreVars, wk, cy, bm, fx, ov, sc, ps, ws>>

\* the build queues after _on_bq_add
AfterBqAdd(build_queues, vid, building, level) ==
    DictSet(build_queues, vid,
            Append(DictGet(build_queues, vid, <<>>), [building |-> building, level |-> level]))

\* the toggle states after _on_toggle_<feature>
AfterToggle(toggle_states, f, enabled) == DictSet(toggle_states, f, enabled)

Edited(rec) == [rec EXCEPT !.edits = @ + 1, !.fresh = FALSE, !.resaved = FALSE]

\* _on_bq_add with a valid level
BqAdd ==
    /\ disk.pc = "up" /\ disk.edits < MaxEdits
    /\ \E vid \in PersistVillages, building \in PersistBuildings, level \in PersistLevels :
        LET q == AfterBqAdd(disk.build_queues, vid, building, level)
        IN disk' = [Edited(disk) EXCEPT !.build_queues = q,
                                        !.file_bq = Whole(DumpBuildQueues(q))]
    /\ UNCHANGED persistFrame

\* _on_bq_remove with an index in range
BqRemove ==
    /\ disk.pc = "up" /\ disk.edits < MaxEdits
    /\ \E vid \in PersistVillages :
        /\ DictHas(disk.build_queues, vid)
        /\ \E idx \in DOMAIN DictGet(disk.build_queues, vid, <<>>) :
            LET queue == DictGet(disk.build_queues, vid, <<>>)
                q == DictSet(disk.build_queues, vid,
                             SubSeq(queue, 1, idx - 1) \o SubSeq(queue, idx + 1, Len(queue)))
            IN disk' = [Edited(disk) EXCEPT !.build_queues = q,
                                            !.file_bq = Whole(DumpBuildQueues(q))]
    /\ UNCHANGED persistFrame

\* _on_bq_move "up" (and, read from the other step, "down")
BqMove ==
    /\ disk.pc = "up" /\ disk.edits < MaxEdits
    /\ \E vid \in PersistVillages :
        /\ DictHas(disk.build_queues, vid)
        /\ \E idx \in DOMAIN DictGet(disk.build_queues, vid, <<>>) :
            /\ idx > 1
            /\ LET queue == DictGet(disk.build_queues, vid, <<>>)
                   q == DictSet(disk.build_queues, vid,
                                [queue EXCEPT ![idx - 1] = queue[idx], ![idx] = queue[idx - 1]])
               IN disk' = [Edited(disk) EXCEPT !.build_queues = q,
                                               !.file_bq = Whole(DumpBuildQueues(q))]
    /\ UNCHANGED persistFrame

\* _on_toggle_building / _farming / _scavenging / _troops
ToggleSave ==
    /\ disk.pc = "up" /\ disk.edits < MaxEdits
    /\ \E f \in FeatureNames, enabled \in BOOLEAN :
        LET t == AfterToggle(disk.toggle_states, f, enabled)
        IN disk' = [Edited(disk) EXCEPT !.toggle_states = t,
                                        !.file_tg = Whole(DumpToggles(t))]
    /\ UNCHANGED persistFrame

\* the process dies inside the write_text of _save_build_queues
CrashInBqSave ==
    /\ disk.pc = "up" /\ disk.edits < MaxEdits
    /\ \E vid \in PersistVillages, building \in PersistBuildings, level \in PersistLevels :
        LET q == AfterBqAdd(disk.build_queues, vid, building, level)
        IN \E torn \in TornFiles(DumpBuildQueues(q)) :
            disk' = [Edited(disk) EXCEPT !.pc = "down", !.build_queues = q, !.file_bq = torn,
                                         !.before_bq = disk.build_queues,
                                         !.before_tg = disk.toggle_states]
    /\ UNCHANGED persistFrame

\* the process dies inside the write_text of _save_toggle_states
CrashInToggleSave ==
    /\ disk.pc = "up" /\ disk.edits < MaxEdits
    /\ \E f \in FeatureNames, enabled \in BOOLEAN :
        LET t == AfterToggle(disk.toggle_states, f, enabled)
        IN \E torn \in TornFiles(DumpToggles(t)) :
            disk' = [Edited(disk) EXCEPT !.pc = "down", !.toggle_states = t, !.file_tg = torn,
                                         !.before_bq = disk.build_queues,
                                         !.before_tg = disk.toggle_states]
    /\ UNCHANGED persistFrame

\* a new process: _setup_panel loads the toggles, run loads the build queues
Restart ==
    /\ disk.pc \in {"up", "down"}
    /\ ~disk.fresh
    /\ disk' = [disk EXCEPT
                  !.pc = "up", !.fresh = TRUE, !.resaved = FALSE,
                  !.old = [bq |-> disk.build_queues, tg |-> disk.toggle_states,
                           before_bq |-> disk.before_bq, before_tg |-> disk.before_tg,
                           file_bq |-> disk.file_bq, file_tg |-> disk.file_tg,
                           crashed |-> disk.pc = "down"],
                  !.build_queues = LoadBuildQueues(disk.file_bq),
                  !.toggle_states = LoadToggles(disk.file_tg)]
    /\ UNCHANGED persistFrame

\* _save_build_queues and _save_toggle_states on the state just loaded
Resave ==
    /\ disk.pc = "up" /\ disk.fresh /\ ~disk.resaved
    /\ disk' = [disk EXCEPT !.resaved = TRUE,
                            !.file_bq = Whole(DumpBuildQueues(disk.build_queues)),
                            !.file_tg = Whole(DumpToggles(disk.toggle_states))]
    /\ UNCHANGED persistFrame

PersistNext ==
    \/ BqAdd \/ BqRemove \/ BqMove \/ ToggleSave
    \/ CrashInBqSave \/ CrashInToggleSave \/ Restart \/ Resave

PersistSpec == PersistInit /\ [][PersistNext]_vars

\* ------------------------------------------------------------------------
\* BridgeSpec: the two ways a panel action reaches the Application: the console
\* bridge of SidePanel (core/side_panel.py) and the WebSocket endpoint
\* (api/server.py) with PanelInterface._dispatch_action.  A string is a sequence
\* of tokens, ":" being a token of its own.
\* ------------------------------------------------------------------------
ACTION_PREFIX == <<"STAEMME", ":">>
\* the actions _setup_panel registers (a part of them) with their callbacks
Registered == [start |-> "_on_panel_start", toggle_building |-> "_on_toggle_building",
               bq_add |-> "_on_bq_add"]
BridgeActions == {"start", "toggle_building", "bq_add", "reload"}
BridgeValues == {<<>>, <<"true">>, <<"false">>, <<"7", ":", "main", ":", "1">>}
\* panel implementation and whether the API server runs (_setup_panel, _use_api)
PanelModes == {[panel |-> "SidePanel", api |-> FALSE], [panel |-> "SidePanel", api |-> TRUE],
               [panel |-> "APIPanel", api |-> TRUE]}

NoCall == [handler |-> "none", payload |-> <<>>]
Unsent == [handler |-> "unsent", payload |-> <<>>]

\* dict.get(action) and "if cb: await cb(value)"
Invoke(handlers, action, value) ==
    IF action \in DOMAIN handlers THEN [handler |-> handlers[action], payload |-> value]
    ELSE NoCall

StartsWith(text, prefix) ==
    Len(text) >= Len(prefix) /\ SubSeq(text, 1, Len(prefix)) = prefix

\* SidePanel._on_console and _handle_action
handle_console(callbacks, text) ==
    IF ~StartsWith(text, ACTION_PREFIX) THEN NoCall
    ELSE LET action_str == SubSeq(text, Len(ACTION_PREFIX) + 1, Len(text))
             colons == {i \in DOMAIN action_str : action_str[i] = ":"}
         IN IF colons # {}
            THEN LET first == CHOOSE i \in colons : \A j \in colons : i <= j
                 IN IF first = 2
                    THEN Invoke(callbacks, action_str[1],
                                SubSeq(action_str, first + 1, Len(action_str)))
                    ELSE NoCall
            ELSE IF Len(action_str) = 1 THEN Invoke(callbacks, action_str[1], <<>>)
            ELSE NoCall

\* websocket_endpoint: data.get("action", ""), data.get("value", ""),
\* panel._dispatch_action
handle_socket(action_handlers, data) ==
    IF data.action # "" THEN Invoke(action_handlers, data.action, data.value) ELSE NoCall

BridgeInit ==
    /\ CoreAtRest
    /\ wk = WakeIdle
    /\ cy = CycleIdle
    /\ bm = BuildIdle
    /\ fx = FnIdle
    /\ ov = ToggleIdle
    /\ sc = ScavIdle
    /\ ps = PanelIdle
    /\ disk = FilesIdle
    /\ \E mode \in PanelModes :
          ws = [pc |-> "bridge", panel |-> mode.panel, api |-> mode.api,
                \* SidePanel.on_action fills _callbacks, PanelInterface.on_action
                \* fills _action_handlers
                callbacks |-> IF mode.panel = "SidePanel" THEN Registered ELSE <<>>,
                action_handlers |-> IF mode.panel = "SidePanel" THEN <<>> ELSE Registered,
                action |-> "", value |-> <<>>, console |-> Unsent, socket |-> Unsent]

socketFrame == <<coreVars, wk, cy, bm, fx, ov, sc, ps, disk>>

\* the user acts in a panel: the action and its payload
PanelEmit ==
    /\ ws.pc = "bridge"
    /\ \E a \in BridgeActions, v \in BridgeValues :
          ws' = [ws EXCEPT !.action = a, !.value = v, !.console = Unsent, !.socket = Unsent]
    /\ UNCHANGED socketFrame

\* console.log('STAEMME:a:v') in the page of a SidePanel
ConsoleMessage ==
    /\ ws.pc = "bridge" /\ ws.panel = "SidePanel"
    /\ ws.action # "" /\ ws.console = Unsent
    /\ LET text == ACTION_PREFIX \o <<ws.action>> \o
                   (IF ws.value = <<>> THEN <<>> ELSE <<":">> \o ws.value)
       IN ws' = [ws EXCEPT !.console = handle_console(ws.callbacks, text)]
    /\ UNCHANGED socketFrame

\* {action: a, value: v} on /ws while the API server runs
SocketMessage ==
    /\ ws.pc = "bridge" /\ ws.api
    /\ ws.action # "" /\ ws.socket = Unsent
    /\ ws' = [ws EXCEPT !.socket = handle_socket(ws.action_handlers,
                                                 [action |-> ws.action, value |-> ws.value])]
    /\ UNCHANGED socketFrame

BridgeNext == PanelEmit \/ ConsoleMessage \/ SocketMessage

BridgeSpec == BridgeInit /\ [][BridgeNext]_vars

\* ------------------------------------------------------------------------
\* SocketSpec: websocket_endpoint and ConnectionManager (api/websocket.py) with
\* the broadcasts of the panel, as tasks of one event loop.  A step runs to the
\* next await; send_text puts the message on the connection in the order of the
\* calls.  Message 0 is full_state, message n the n-th broadcast event.  owed
\* records, for the broadcasts that ended, the clients connected throughout.
\* ------------------------------------------------------------------------
MaxEvents == 2
Clients == {"c1", "c2"}
FullState == 0

\* a connect that sends no snapshot
SendNothing(queue) == queue
\* send_full_state: ws.send_text of the full_state message
SendFullState(queue) == Append(queue, FullState)

\* list.remove(ws) for the members that are in the list
Without(conns, gone) == SelectSeq(conns, LAMBDA c : c \notin gone)

SocketInit ==
    /\ CoreAtRest
    /\ wk = WakeIdle
    /\ cy = CycleIdle
    /\ bm = BuildIdle
    /\ fx = FnIdle
    /\ ov = ToggleIdle
    /\ sc = ScavIdle
    /\ ps = PanelIdle
    /\ disk = FilesIdle
    /\ ws = [pc |-> "socket", client |-> [c \in Clients |-> "idle"], conns |-> <<>>,
             out |-> [c \in Clients |-> <<>>], loops |-> {}, issued |-> 0, owed |-> {}]

\* ws.send_text(message) to c inside broadcast: the message is queued for an open
\* connection, a closed one raises and the client is noted as stale
SendTo(rec, loop, c) ==
    IF rec.client[c] = "open"
    THEN [rec EXCEPT !.out[c] = Append(@, loop.ev),
                     !.loops = (@ \ {loop}) \cup {[loop EXCEPT !.i = @ + 1]}]
    ELSE [rec EXCEPT !.loops = (@ \ {loop}) \cup
                                 {[loop EXCEPT !.i = @ + 1, !.stale = @ \cup {c}]}]

\* a client opens /ws: websocket_endpoint runs to "await ws.accept()"
WsConnect ==
    /\ ws.pc = "socket"
    /\ \E c \in Clients :
        /\ ws.client[c] = "idle"
        /\ ws' = [ws EXCEPT !.client[c] = "accepting"]
    /\ UNCHANGED socketFrame

\* accept returns: the connection is appended, to_json_dict is taken and
\* send_full_state calls send_text; the endpoint then waits in receive_json
WsAccept ==
    /\ ws.pc = "socket"
    /\ \E c \in Clients :
        /\ ws.client[c] = "accepting"
        /\ ws' = [ws EXCEPT !.client[c] = "open", !.conns = Append(@, c),
                            !.out[c] = SendFullState(@)]
    /\ UNCHANGED socketFrame

\* the client goes away
ClientDrops ==
    /\ ws.pc = "socket"
    /\ \E c \in Clients :
        /\ ws.client[c] = "open"
        /\ ws' = [ws EXCEPT !.client[c] = "gone"]
    /\ UNCHANGED socketFrame

\* receive_json raises in the endpoint: ws_manager.disconnect(ws)
EndpointDisconnect ==
    /\ ws.pc = "socket"
    /\ \E c \in Clients :
        /\ ws.client[c] = "gone"
        /\ \E i \in DOMAIN ws.conns : ws.conns[i] = c
        /\ ws' = [ws EXCEPT !.conns = Without(@, {c})]
    /\ UNCHANGED socketFrame

\* the event of a broadcast that ends, paired with each client that was in the
\* list when it started and is still connected
Owed(rec, loop) == {<<loop.ev, c>> : c \in {d \in loop.start : rec.client[d] = "open"}}

\* broadcast(event, data) up to its first await
BroadcastStart ==
    /\ ws.pc = "socket"
    /\ ws.issued < MaxEvents
    /\ LET loop == [ev |-> ws.issued + 1, i |-> 1, stale |-> {},
                    start |-> {ws.conns[k] : k \in DOMAIN ws.conns}]
           rec == [ws EXCEPT !.issued = @ + 1]
       IN ws' = IF ws.conns = <<>> THEN rec
                ELSE SendTo([rec EXCEPT !.loops = @ \cup {loop}], loop, ws.conns[1])
    /\ UNCHANGED socketFrame

\* a broadcast resumes after a send_text: the next connection of the list as it
\* is now, or the end of the loop and the disconnect of the stale connections
BroadcastStep ==
    /\ ws.pc = "socket"
    /\ \E loop \in ws.loops :
        ws' = IF loop.i <= Len(ws.conns) THEN SendTo(ws, loop, ws.conns[loop.i])
              ELSE [ws EXCEPT !.loops = @ \ {loop}, !.conns = Without(@, loop.stale),
                              !.owed = @ \cup Owed(ws, loop)]
    /\ UNCHANGED socketFrame

SocketNext ==
    \/ WsConnect \/ WsAccept \/ ClientDrops \/ EndpointDisconnect
    \/ BroadcastStart \/ BroadcastStep

SocketSpec == SocketInit /\ [][SocketNext]_vars

\* ------------------------------------------------------------------------
\* AlertSpec: the notifications of BotProtectionMonitor (core/bot_protection.py)
\* under any sequence of on_detection and on_clear calls, with the clock.
\* Time is counted in ticks; the cooldown is CooldownTicks.  A notification
\* counts as sent when _send_telegram posts it, that is when the token and the
\* chat id are configured.  det and clr hold the times of the notifications
\* of each class, newest last, and last the outcome of the latest call.
\* ------------------------------------------------------------------------
MaxClock == 3

\* time.time() of the first call: _last_alert_time starts at 0 and the clock
\* of a running machine is far more than the cooldown past the epoch
FirstNow == CooldownTicks + 1

\* the last two entries of a list of send times
LastTwo(times) == IF Len(times) > 2 THEN SubSeq(times, Len(times) - 1, Len(times)) ELSE times

\* _send_telegram: posts unless the token or the chat id is missing
send_telegram(configured, times, now) == IF configured THEN LastTwo(Append(times, now)) ELSE times

AlertInit ==
    /\ CoreAtRest
    /\ wk = WakeIdle
    /\ cy = CycleIdle
    /\ bm = BuildIdle
    /\ fx = FnIdle
    /\ ov = ToggleIdle
    /\ sc = ScavIdle
    /\ disk = FilesIdle
    /\ ws = SocketIdle
    /\ \E configured \in BOOLEAN :
        ps = [pc |-> "alert", configured |-> configured, now |-> FirstNow,
              detected |-> FALSE, last_alert_time |-> 0,
              det |-> <<>>, clr |-> <<>>, last |-> "none"]

\* on_detection
OnDetectionCall ==
    /\ ps.pc = "alert"
    /\ IF ps.now - ps.last_alert_time < CooldownTicks
       THEN ps' = [ps EXCEPT !.detected = TRUE, !.last = "suppressed"]
       ELSE ps' = [ps EXCEPT !.detected = TRUE, !.last = "alert",
                             !.last_alert_time = ps.now,
                             !.det = send_telegram(ps.configured, ps.det, ps.now)]
    /\ UNCHANGED panelFrame

\* on_clear
OnClearCall ==
    /\ ps.pc = "alert"
    /\ IF ~ps.detected
       THEN ps' = [ps EXCEPT !.last = "nothing"]
       ELSE ps' = [ps EXCEPT !.detected = FALSE, !.last = "cleared",
                             !.clr = send_telegram(ps.configured, ps.clr, ps.now)]
    /\ UNCHANGED panelFrame

AlertTick ==
    /\ ps.pc = "alert"
    /\ ps.now < FirstNow + MaxClock
    /\ ps' = [ps EXCEPT !.now = ps.now + 1]
    /\ UNCHANGED panelFrame

AlertNext == OnDetectionCall \/ OnClearCall \/ AlertTick

AlertSpec == AlertInit /\ [][AlertNext]_vars

\* ------------------------------------------------------------------------
\* PrioSpec: BuildingManager._pick_next_building_priority on bounded inputs:
\* a priority order, the target levels of a template and a level map
\* ------------------------------------------------------------------------
TargetMaps == UNION {[D -> 0..MaxLevel] : D \in SUBSET Buildings}

BelowTargetOrAt(current, target) == current <= target
\* _pick_next_building_priority: "if current < target"
BelowTarget(current, target) == current < target

\* _pick_next_building_priority: the walk over priority_order
RECURSIVE pick_next_building_priority(_, _, _)
pick_next_building_priority(priority_order, target_levels, current_levels) ==
    IF priority_order = <<>> THEN None
    ELSE LET building_name == Head(priority_order) IN
         IF building_name \notin DOMAIN target_levels
         THEN pick_next_building_priority(Tail(priority_order), target_levels, current_levels)
         ELSE LET target == target_levels[building_name]
                  current == GetOrZero(current_levels, building_name)
              IN IF BelowTarget(current, target)
                 THEN <<building_name, current, target>>
                 ELSE pick_next_building_priority(Tail(priority_order), target_levels,
                                                  current_levels)

PrioInit ==
    /\ CoreAtRest
    /\ AuxIdle
    /\ wk = WakeIdle
    /\ cy = CycleIdle
    /\ bm = BuildIdle
    /\ ov = ToggleIdle
    /\ \E O \in SeqsUpTo(Buildings, MaxSteps), T \in TargetMaps, L \in LevelMaps :
        fx = [kind |-> "prio_in", order |-> O, targets |-> T, levels |-> L]

\* a call of _pick_next_building in priority mode
PrioPick ==
    /\ fx.kind = "prio_in"
    /\ fx' = [kind |-> "prio", order |-> fx.order, targets |-> fx.targets, levels |-> fx.levels,
              out |-> pick_next_building_priority(fx.order, fx.targets, fx.levels)]
    /\ UNCHANGED fnFrame

PrioNext == PrioPick

PrioSpec == PrioInit /\ [][PrioNext]_vars

\* ------------------------------------------------------------------------
\* RecruitSpec: TroopManager.run in targets mode (managers/troop_manager.py)
\* over repeated cycles, against the game's barracks and stable.  One unit of
\* each building is followed.  owned is the count the building's page shows,
\* queued the units in its training queue; the game finishes queued units one
\* by one and accepts or refuses a submitted order.
\* ------------------------------------------------------------------------
MaxCycles == 2
BarracksBatch == 50
StableBatch == 25

RecruitUnits == {"spear", "light"}
\* models/troops.py: BARRACKS_UNITS and STABLE_UNITS
BarracksUnits == {"spear"}
StableUnits == {"light"}
\* config.troops.targets
RecruitTargets ==
    {[spear |-> 0, light |-> 0], [spear |-> 2, light |-> 2], [spear |-> 3, light |-> 1],
     [spear |-> BarracksBatch + 3, light |-> 0], [spear |-> 0, light |-> StableBatch + 2]}
\* units in the village when the manager first runs
RecruitOwned == {[spear |-> 0, light |-> 0], [spear |-> 1, light |-> 0],
                 [spear |-> 3, light |-> 3]}

Least(a, b) == IF a < b THEN a ELSE b

\* _get_barracks_needs: owned = current + queued; deficit = target - owned
UnitDeficit(target, current, queued) == target - (current + queued)

\* _get_barracks_needs: the batch of one unit, 0 when the unit is left out
barracks_need(target, current, queued) ==
    IF target <= 0 THEN 0
    ELSE IF UnitDeficit(target, current, queued) > 0
         THEN Least(UnitDeficit(target, current, queued), BarracksBatch)
         ELSE 0

\* _get_stable_needs: the batch of one unit; the stable's queue is not read
stable_need(target, current) ==
    IF target <= 0 THEN 0
    ELSE IF target - current > 0 THEN Least(target - current, StableBatch) ELSE 0

NoBatch == [u \in RecruitUnits |-> 0]

RecruitInit ==
    /\ CoreAtRest
    /\ wk = WakeIdle
    /\ cy = CycleIdle
    /\ bm = BuildIdle
    /\ fx = FnIdle
    /\ ov = ToggleIdle
    /\ ps = PanelIdle
    /\ disk = FilesIdle
    /\ ws = SocketIdle
    /\ \E targets \in RecruitTargets, owned \in RecruitOwned :
          sc = [pc |-> "recruit_idle", targets |-> targets, start |-> owned,
                owned |-> owned, queued |-> NoBatch, seen_owned |-> owned,
                seen_queued |-> NoBatch, batch |-> NoBatch, cycles |-> 0]

\* run: the guards, up to "await self._get_barracks_needs"
RecruitStart ==
    /\ sc.pc = "recruit_idle"
    /\ sc.cycles < MaxCycles
    /\ sc' = [sc EXCEPT !.pc = "recruit_barracks", !.cycles = sc.cycles + 1,
                        !.batch = NoBatch]
    /\ UNCHANGED scavFrame

\* the units of one building: read, compute the needs, submit them
Submit(rec, units, needs, accepted) ==
    [rec EXCEPT !.seen_owned = [u \in RecruitUnits |->
                                   IF u \in units THEN rec.owned[u] ELSE rec.seen_owned[u]],
                !.seen_queued = [u \in RecruitUnits |->
                                    IF u \in units THEN rec.queued[u] ELSE rec.seen_queued[u]],
                !.batch = [u \in RecruitUnits |->
                              IF u \in units THEN needs[u] ELSE rec.batch[u]],
                !.queued = [u \in RecruitUnits |->
                               IF u \in units /\ accepted THEN rec.queued[u] + needs[u]
                               ELSE rec.queued[u]]]

\* run: _get_barracks_needs and barracks.train_units
RecruitBarracks ==
    /\ sc.pc = "recruit_barracks"
    /\ \E accepted \in BOOLEAN :
        LET needs == [u \in RecruitUnits |->
                         barracks_need(sc.targets[u], sc.owned[u], sc.queued[u])]
        IN sc' = [Submit(sc, BarracksUnits, needs, accepted) EXCEPT !.pc = "recruit_stable"]
    /\ UNCHANGED scavFrame

\* run: _get_stable_needs and stable.train_units
RecruitStable ==
    /\ sc.pc = "recruit_stable"
    /\ \E accepted \in BOOLEAN :
        LET needs == [u \in RecruitUnits |-> stable_need(sc.targets[u], sc.owned[u])]
        IN sc' = [Submit(sc, StableUnits, needs, accepted) EXCEPT !.pc = "recruit_idle"]
    /\ UNCHANGED scavFrame

\* the game finishes the training of one queued unit
GameTrains ==
    /\ sc.pc \in {"recruit_idle", "recruit_barracks", "recruit_stable"}
    /\ \E u \in RecruitUnits :
        /\ sc.queued[u] > 0
        /\ sc' = [sc EXCEPT !.queued[u] = sc.queued[u] - 1, !.owned[u] = sc.owned[u] + 1]
    /\ UNCHANGED scavFrame

RecruitNext == RecruitStart \/ RecruitBarracks \/ RecruitStable \/ GameTrains

RecruitSpec == RecruitInit /\ [][RecruitNext]_vars

\* ------------------------------------------------------------------------
\* PlanSpec: one BuildingManager.run in priority or sequential mode against
\* the game's headquarters: the levels, the construction queue by building,
\* the cost data of the page and the village's resources.  resources is the
\* snapshot the overview gave run_cycle before the manager was called,
\* in_game what the village holds.  orders lists the upgrades submitted.
\* ------------------------------------------------------------------------
PlanTemplates ==
    {[mode |-> "priority", order |-> <<"main", "wood">>,
      targets |-> [main |-> 1, wood |-> 2], steps |-> <<>>],
     [mode |-> "sequential", order |-> <<>>, targets |-> <<>>,
      steps |-> <<[building |-> "main", level |-> 1], [building |-> "wood", level |-> 1],
                  [building |-> "wood", level |-> 2]>>]}
\* the cost of the next level of a building as the page lists it
PlanCosts == [main |-> [wood |-> 6, stone |-> 5, iron |-> 4],
              wood |-> [wood |-> 5, stone |-> 6, iron |-> 2]]
PlanResources == {[wood |-> 3, stone |-> 10, iron |-> 10], [wood |-> 6, stone |-> 6, iron |-> 6],
                  [wood |-> 10, stone |-> 10, iron |-> 10],
                  [wood |-> 11, stone |-> 11, iron |-> 6]}
\* the buildings whose row has an upgrade link with costs; none when parsing failed
AvailableSets == {{}, {"main"}, Buildings}

\* Resources.can_afford
can_afford(have, cost) == \A r \in ResNames : have[r] >= cost[r]
\* Resources.__sub__
Minus(have, cost) == [r \in ResNames |-> have[r] - cost[r]]

\* occurrences of a building in a queue
Queued(queue, b) == Cardinality({i \in DOMAIN queue : queue[i] = b})

\* _pick_next_building
pick_next_building(tpl, levels, queue) ==
    IF tpl.mode = "sequential"
    THEN pick_next_building_sequential(tpl.steps, levels, queue)
    ELSE pick_next_building_priority(tpl.order, tpl.targets, levels)

PlanInit ==
    /\ CoreAtRest
    /\ AuxIdle
    /\ wk = WakeIdle
    /\ cy = CycleIdle
    /\ fx = FnIdle
    /\ ov = ToggleIdle
    /\ \E tpl \in PlanTemplates, levels \in [Buildings -> 0..1],
          queue \in SeqsUpTo(Buildings, max_queue), res \in PlanResources :
          bm = [pc |-> "plan_start", tpl |-> tpl, levels |-> levels, queue |-> queue,
                resources |-> res, in_game |-> res,
                state |-> [levels |-> <<>>, queue |-> <<>>, available |-> {}],
                next |-> None, att |-> 0, orders |-> <<>>]

\* get_hq_state: the page as the game shows it
HqState(rec, available) == [levels |-> rec.levels, queue |-> rec.queue, available |-> available]

\* run: the gates and the first get_hq_state
PlanGetState ==
    /\ bm.pc = "plan_start"
    /\ \E available \in AvailableSets :
          bm' = [bm EXCEPT !.pc = "plan_loop", !.state = HqState(bm, available)]
    /\ UNCHANGED buildFrame

\* run: one pass of the loop over the slots up to "await upgrade_building":
\* the queue test, the pick, the affordability test and the availability test
PlanAttempt ==
    /\ bm.pc = "plan_loop"
    /\ LET next_building == pick_next_building(bm.tpl, bm.state.levels, bm.state.queue)
       IN IF \/ bm.att >= max_queue
             \/ QueueFull(Len(bm.state.queue))
             \/ next_building = None
          THEN bm' = [bm EXCEPT !.pc = "plan_done"]
          ELSE LET building_name == next_building[1] IN
               IF building_name \in bm.state.available
               THEN IF can_afford(bm.resources, PlanCosts[building_name])
                    THEN bm' = [bm EXCEPT !.pc = "plan_order", !.next = next_building]
                    ELSE bm' = [bm EXCEPT !.pc = "plan_done"]
               ELSE IF bm.state.available # {}
                    THEN bm' = [bm EXCEPT !.pc = "plan_done"]
                    ELSE bm' = [bm EXCEPT !.pc = "plan_order", !.next = next_building]
    /\ UNCHANGED buildFrame

\* the upgrades of this cycle that the game took
Taken(orders) == {i \in DOMAIN orders : orders[i].taken}

RECURSIVE Spent(_)
\* what the taken upgrades of this cycle cost
Spent(orders) ==
    IF orders = <<>> THEN [r \in ResNames |-> 0]
    ELSE LET o == orders[Len(orders)]
             before == Spent(SubSeq(orders, 1, Len(orders) - 1))
         IN IF o.taken THEN [r \in ResNames |-> before[r] + PlanCosts[o.building][r]]
            ELSE before

\* upgrade_building: navigate, read the queue, raise when it is full, else click
\* the row's button; the game queues the upgrade when the village can pay it
PlanOrder ==
    /\ bm.pc = "plan_order"
    /\ IF QueueFull(Len(bm.queue))
       THEN bm' = [bm EXCEPT !.pc = "plan_done"]
       ELSE \E clicked \in BOOLEAN :
               LET b == bm.next[1]
                   taken == clicked /\ can_afford(bm.in_game, PlanCosts[b])
                   upgrade == [building |-> b, level |-> bm.next[2], target |-> bm.next[3],
                               queued |-> Queued(bm.state.queue, b),
                               cost_known |-> b \in bm.state.available,
                               left |-> Minus(bm.resources, Spent(bm.orders)),
                               taken |-> taken]
               IN IF clicked
                  THEN bm' = [bm EXCEPT !.pc = "plan_refresh",
                                        !.orders = Append(bm.orders, upgrade),
                                        !.queue = IF taken THEN Append(bm.queue, b) ELSE bm.queue,
                                        !.in_game = IF taken THEN Minus(bm.in_game, PlanCosts[b])
                                                    ELSE bm.in_game]
                  ELSE bm' = [bm EXCEPT !.pc = "plan_done"]
    /\ UNCHANGED buildFrame

\* run: state = await get_hq_state after a successful order
PlanRefresh ==
    /\ bm.pc = "plan_refresh"
    /\ \E available \in AvailableSets :
          bm' = [bm EXCEPT !.pc = "plan_loop", !.att = bm.att + 1,
                           !.state = HqState(bm, available)]
    /\ UNCHANGED buildFrame

\* the game finishes the first construction of the queue
GameFinishes ==
    /\ bm.pc \in {"plan_loop", "plan_order", "plan_refresh"}
    /\ bm.queue # <<>>
    /\ bm' = [bm EXCEPT !.queue = Tail(bm.queue),
                        !.levels[Head(bm.queue)] = bm.levels[Head(bm.queue)] + 1]
    /\ UNCHANGED buildFrame

PlanNext == PlanGetState \/ PlanAttempt \/ PlanOrder \/ PlanRefresh \/ GameFinishes

PlanSpec == PlanInit /\ [][PlanNext]_vars

\* ------------------------------------------------------------------------
\* SyncSpec: the one BuildingManager of the VillageManager across villages:
\* _process_village syncs the village's panel build queue into the manager
\* (_sync_build_queue_to_manager) before run_cycle plans with it.  Villages
\* are processed in any order, and panel queues change between cycles
\* (bq_add, bq_remove, bq_clear, _auto_remove_completed_steps).
\* ------------------------------------------------------------------------
SyncVillages == {"a", "b"}
\* panel build queues of a village
SyncQueues == {<<>>, <<[building |-> "main", level |-> 1]>>,
               <<[building |-> "wood", level |-> 2]>>,
               <<[building |-> "main", level |-> 1], [building |-> "wood", level |-> 2]>>}
\* load_template: the mode and the steps of the configured TOML template
SyncTemplates == {[mode |-> "priority", build_steps |-> <<>>],
                  [mode |-> "sequential", build_steps |-> <<[building |-> "wood", level |-> 1]>>]}

\* _sync_build_queue_to_manager: the manager's mode and steps after the call
sync_build_queue_to_manager(building, steps) ==
    IF steps # <<>> THEN [mode |-> "sequential", build_steps |-> steps] ELSE building

SyncInit ==
    /\ CoreAtRest
    /\ AuxIdle
    /\ wk = WakeIdle
    /\ cy = CycleIdle
    /\ fx = FnIdle
    /\ ov = ToggleIdle
    /\ \E tpl \in SyncTemplates, queues \in [SyncVillages -> SyncQueues] :
          bm = [pc |-> "sync", template |-> tpl, building |-> tpl, build_queues |-> queues,
                village |-> "none", steps |-> <<>>, planned |-> tpl]

\* _process_village of one village up to run_cycle: the sync, then the
\* manager plans with its mode and build_steps
ProcessVillage ==
    /\ bm.pc = "sync"
    /\ \E v \in SyncVillages :
        LET steps == bm.build_queues[v]
            building == sync_build_queue_to_manager(bm.building, steps)
        IN bm' = [bm EXCEPT !.building = building, !.village = v, !.steps = steps,
                            !.planned = building]
    /\ UNCHANGED buildFrame

\* the panel queue of a village changes: a panel action or the auto-removal
QueueChange ==
    /\ bm.pc = "sync"
    /\ \E v \in SyncVillages, steps \in SyncQueues :
        /\ steps # bm.build_queues[v]
        /\ bm' = [bm EXCEPT !.build_queues[v] = steps]
    /\ UNCHANGED buildFrame

SyncNext == ProcessVillage \/ QueueChange

SyncSpec == SyncInit /\ [][SyncNext]_vars

\* ------------------------------------------------------------------------
\* Steps named by the properties
\* ------------------------------------------------------------------------
\* a village pipeline (run_cycle) is dispatched in this step
DispatchStep == mainPc \in {"loop_top", "village_next"} /\ mainPc' \in {"overview", "managers"}

\* a manager of run_cycle is started in this step
ManagerStartStep == mainPc' = "managers" /\ <<mainPc, managers>> # <<mainPc', managers'>>

\* run_fill_scavenge submits its training batch in this step
TrainStep == mainPc = "fill_info" /\ mainPc' = "fill_train"

\* _handle_bot_protection runs in this step, called by the monitor's callback
\* _on_bot_protection_detected (directly after on_detection, or after its send)
MonitorHandles ==
    /\ running
    /\ \/ MonDetect /\ Sent(AlertDue(sinceAlert)) = 0
       \/ MonSent /\ monPc = "send_detect"

\* _handle_bot_protection runs in this step, called by the main task after a
\* failed navigation left a protection URL
MainHandles ==
    /\ check_url(page) # NoPattern
    /\ \/ OverviewDone /\ mainPc' # "captcha_wait"
       \/ FillInfoDone

\* what _handle_bot_protection leaves behind for pattern pat
Halted(pat) ==
    /\ detected'
    /\ ~running'
    /\ ~paused'
    /\ botState' = "stopped"
    /\ banner' = pat
    /\ pat # NoPattern

\* C1: no village pipeline is dispatched while detected and the run flag are both set
C1_NoDispatchWhileDetected == [][DispatchStep => ~(detected /\ running)]_vars

\* C2: detected is reset only when no pattern is observed and the manual-resolve latch is set
C2_ClearOnlyWithLatch ==
    [][(detected /\ ~detected') => (resolvedEvent /\ check_page(page) = NoPattern)]_vars

\* C3: bot_protection_resolved after a protection halt is never handled when the
\* main loop has already returned (run() is waiting in gather or shutting down),
\* so that the loop is there to dispatch the next village pipeline
C3_ResolvedFindsLoop ==
    [][(banner # NoPattern /\ banner' = NoPattern) => mainPc \notin {"gather_wait", "closing"}]_vars

\* C4: a dispatch after a protection halt is preceded by a handled bot_protection_resolved
\* (the banner is raised by the halt and lowered only by that action)
C4_DispatchOnlyAfterResolved == [][DispatchStep => banner = NoPattern]_vars

C8_NoDispatchWhilePaused ==
    [][/\ DispatchStep => ~paused
       /\ (paused /\ ~paused' /\ running') => (OnPanelStart \/ OnBotProtectionResolved)]_vars

\* C8 witness: a cycle was cut short by the pause flag (villages left undispatched)
C8_CycleCutShort == mainPc = "sleep" /\ paused /\ running /\ order # <<>> /\ botState = "paused"

\* C9: after the run flag is cleared the pipeline starts no further manager and
\* fill-scavenge submits no training batch
C9_NoWorkAfterStop == [][(ManagerStartStep \/ TrainStep) => running]_vars

\* C10: a signal that cleared the run flag keeps it cleared until a start or
\* resolved action, so that the main loop exits and run() returns 0
C10_SignalKeepsFlagCleared == sigPending => ~running

\* the waits of the computation that lie more than 30 s ahead
FutureWaits == {w \in {wk.scav, wk.build, wk.res, wk.farm} : w > EventThreshold}

Earliest == CHOOSE w \in FutureWaits : \A v \in FutureWaits : w <= v

\* the wait of the event reported as earliest
ReportedWait ==
    CASE wk.name = "scavenge" -> wk.scav
      [] wk.name = "build_queue" -> wk.build
      [] wk.name = "resources" -> wk.res
      [] wk.name = "farming" -> wk.farm
      [] OTHER -> -1

\* C6: the sleep at the end of a cycle ends no later than the earliest event that
\* is more than 30 s ahead, plus 30 s of jitter, fill-scavenge cycles included
C6_SleepEndsByEarliestEvent ==
    (wk.pc = "done" /\ FutureWaits # {}) => wk.slept <= Earliest + JitterHigh

\* C7: candidates of at most 30 s are discarded; the delay is the least remaining
\* candidate plus a jitter in [10, 30] and the reported event is one with that
\* wait; with no candidate the delay lies in the active_delay range; the waits
\* (600, 1200, 300, 50) give "farming" and a delay in [60, 80]
C7_WakeUpComputation ==
    wk.pc \in {"computed", "done"} =>
        /\ FutureWaits # {} =>
              /\ ReportedWait = Earliest
              /\ wk.delay - Earliest \in JitterLow..JitterHigh
        /\ FutureWaits = {} =>
              /\ wk.name = "none"
              /\ wk.delay \in ActiveDelayLow..ActiveDelayHigh
        /\ (wk.scav = 600 /\ wk.build = 1200 /\ wk.res = 300 /\ wk.farm = 50) =>
              /\ wk.name = "farming"
              /\ wk.delay \in 60..80

\* C7 witness: the example of the claim was computed
C7_ExampleComputed ==
    /\ wk.pc = "computed"
    /\ wk.scav = 600 /\ wk.build = 1200 /\ wk.res = 300 /\ wk.farm = 50
    /\ wk.name = "farming" /\ wk.delay = 70

\* C11: at the end of a cycle the first special signal a driver interaction raised
\* has been answered by the orchestrator's matching reaction
C11_SignalReachesOrchestrator ==
    (cy.pc = "done" /\ cy.signal # "none") => cy.handler = ReactionTo(cy.signal)

\* C12: when a manager raised, its entry is False, every manager of the cycle's
\* order was still run, the report step ran if farming is enabled and run_cycle
\* returned normally
C12_FaultIsolation ==
    (cy.pc = "done" /\ \E f \in FeatureNames : cy.result[f] = "false") =>
        /\ cy.raised = "none"
        /\ cy.ran = {cy.plan[i] : i \in 1..Len(cy.plan)}
        /\ \A f \in cy.ran : cy.result[f] \in {"done", "false"}
        /\ "farming" \in EnabledFor(cy) => cy.reports

\* C12 witness: the first manager raised, the second ran, the reports ran
C12_SecondRanAfterFailure ==
    /\ cy.pc = "done" /\ Len(cy.plan) >= 2
    /\ cy.result[cy.plan[1]] = "false" /\ cy.result[cy.plan[2]] = "done"
    /\ cy.reports

\* C13: in a cycle of a village with incoming attacks no manager is run
C13_NoManagerUnderAttack == (cy.pc # "off" /\ cy.attack) => cy.ran = {}

\* C14: a feature overridden to true has its manager do its work when run, and a
\* feature overridden to false is not run
C14_OverrideEffective ==
    cy.pc # "off" =>
        \A f \in FeatureNames :
            /\ (cy.ovr.present /\ cy.ovr.val[f] = "true" /\ f \in cy.ran) => f \in cy.performed
            /\ (cy.ovr.present /\ cy.ovr.val[f] = "false") => f \notin cy.ran

\* the override of village v for feature f; a village without entry has none
OverrideOf(o, v, f) == IF o[v].present THEN o[v].val[f] ELSE "null"

\* C15: is_feature_enabled(v, f) is the override when it is true or false and the
\* global toggle when it is null or the village has no entry, and a village
\* toggle '<vid>:<feature>:<tri>' changes exactly that one override (a step that
\* is the toggle of (v, f) to the value found afterwards leaves the global
\* toggles and every other override as they were)
C15_ThreeValuedResolution ==
    /\ [](ov.ovr # <<>> =>
            \A v \in ToggleVillages, f \in FeatureNames :
                is_feature_enabled(ov.glob, ov.ovr[v], f) =
                    (CASE OverrideOf(ov.ovr, v, f) = "true" -> TRUE
                       [] OverrideOf(ov.ovr, v, f) = "false" -> FALSE
                       [] OTHER -> f \in ov.glob))
    /\ [][\A v \in ToggleVillages, f \in FeatureNames :
            LET tri == OverrideOf(ov'.ovr, v, f) IN
            VillageToggled(v, f, tri) =>
                /\ ov'.glob = ov.glob
                /\ \A w \in ToggleVillages, g \in FeatureNames :
                      (w # v \/ g # f) => OverrideOf(ov'.ovr, w, g) = OverrideOf(ov.ovr, w, g)]_vars

\* C15 witness: one village overrides a globally enabled feature to false and a
\* globally disabled one to true, another village has no entry
C15_OverridesAgainstGlobal ==
    /\ ov.ovr # <<>>
    /\ \E v, w \in ToggleVillages, f, g \in FeatureNames :
          /\ ov.ovr[v].present /\ ~ov.ovr[w].present
          /\ ov.ovr[v].val[f] = "false" /\ f \in ov.glob
          /\ ov.ovr[v].val[g] = "true" /\ g \notin ov.glob

\* C16: the sequential planner returns the first step whose current level plus
\* queue occurrences is below its target (so its current level is below target and
\* every earlier step is covered), a missing building counting as level 0, and
\* None exactly when every step is covered
C16_FirstUnsatisfiedStep ==
    fx.kind = "pick" =>
        LET S == fx.steps
            Cur(b) == IF b \in DOMAIN fx.levels THEN fx.levels[b] ELSE 0
            Occ(b) == Cardinality({k \in DOMAIN fx.queue : fx.queue[k] = b})
            Open == {k \in DOMAIN S : Cur(S[k].building) + Occ(S[k].building) < S[k].level}
        IN /\ (fx.out = None) <=> (Open = {})
           /\ Open # {} =>
                LET k == CHOOSE m \in Open : \A n \in Open : m <= n IN
                /\ fx.out = <<S[k].building, Cur(S[k].building), S[k].level>>
                /\ Cur(S[k].building) < S[k].level
                /\ \A j \in 1..(k - 1) :
                      Cur(S[j].building) + Occ(S[j].building) >= S[j].level

\* C16 witness: the first step is covered only by the queue, the second step, of
\* a building missing from the level map, is selected
C16_QueuedStepSkipped ==
    /\ fx.kind = "pick" /\ Len(fx.steps) >= 2 /\ fx.out # None
    /\ fx.steps[1].building \in DOMAIN fx.levels
    /\ fx.levels[fx.steps[1].building] < fx.steps[1].level
    /\ fx.steps[2].building \notin DOMAIN fx.levels
    /\ fx.out = <<fx.steps[2].building, 0, fx.steps[2].level>>

\* C18: the resource wait lies in 0..3600; it is 3600 when a resource with a
\* positive deficit has no production, otherwise the largest of
\* deficit * 3600 / production over the resources in deficit, capped at 3600,
\* and 0 without deficit
C18_ResourceWait ==
    fx.kind = "wait" =>
        LET Deficit(r) == IF fx.need[r] > fx.have[r] THEN fx.need[r] - fx.have[r] ELSE 0
            Short == {r \in ResNames : Deficit(r) > 0}
            w == fx.out
        IN /\ w.d > 0 /\ w.n >= 0 /\ w.n <= 3600 * w.d
           /\ (\E r \in Short : fx.rate[r] <= 0) => w.n = 3600 * w.d
           /\ Short = {} => w.n = 0
           /\ (\A r \in Short : fx.rate[r] > 0) =>
                /\ \A r \in Short :
                      \/ w.n * fx.rate[r] >= Deficit(r) * 3600 * w.d
                      \/ w.n = 3600 * w.d
                /\ \/ Short = {}
                   \/ w.n = 3600 * w.d /\ \E r \in Short : Deficit(r) >= fx.rate[r]
                   \/ \E r \in Short : w.n * fx.rate[r] = Deficit(r) * 3600 * w.d

\* C18 witness: a deficit of 100 at 360 per hour, nothing else short: 1000 s
C18_ExampleThousandSeconds ==
    /\ fx.kind = "wait"
    /\ fx.need["wood"] - fx.have["wood"] = 100 /\ fx.rate["wood"] = 360
    /\ fx.need["stone"] <= fx.have["stone"] /\ fx.need["iron"] <= fx.have["iron"]
    /\ fx.out.n = 1000 * fx.out.d

\* C17 as stated: a building cycle submits at most max_queue minus the queue
\* length observed at its start, and only when the queue length observed last is
\* below max_queue
C17_AtMostFreeSlotsAtStart ==
    bm.pc \in {"loop", "order", "refresh", "done"} =>
        /\ bm.sub <= max_queue - bm.q0
        /\ bm.sub > 0 => bm.seen < max_queue

\* C17 amended: a building cycle submits at most max_queue upgrades, each only
\* when the queue length observed last is below max_queue, and at most max_queue
\* minus the length observed at its start when no construction finished and no
\* submission was rejected during the cycle
C17_SubmitsWithinQueue ==
    bm.pc \in {"loop", "order", "refresh", "done"} =>
        /\ bm.sub <= max_queue
        /\ bm.sub > 0 => bm.seen < max_queue
        /\ (~bm.fin /\ ~bm.rej) => bm.sub <= max_queue - bm.q0

\* C17 witness: one entry queued at the start, it finishes during the cycle, two
\* upgrades are submitted
C17_TwoSubmittedAfterCompletion ==
    bm.pc = "done" /\ bm.q0 = 1 /\ bm.sub = 2 /\ bm.fin /\ ~bm.rej

\* C19: after the post-cycle step of a village, if its levels were read in that
\* cycle its panel queue holds exactly the previous steps whose target is above
\* the village's own level of the building, in their order; in every case no
\* step whose target is above the village's own level has been removed, and a
\* shortened queue has been saved
C19_AutoSkipByOwnLevels ==
    (bm.pc = "next" /\ bm.post) =>
        LET v == SkipVillages[bm.i]
            Own(b) == IF b \in DOMAIN bm.lvl[v] THEN bm.lvl[v][b] ELSE 0
            Above(st) == Own(st.building) < st.level
        IN /\ bm.read => bm.steps[v] = SelectSeq(bm.before, Above)
           /\ SelectSeq(bm.steps[v], Above) = SelectSeq(bm.before, Above)
           /\ Len(bm.steps[v]) < Len(bm.before) => bm.saved

\* C20: for every pool and every non-empty set of unlocked tiers the allocation
\* places every troop exactly once (per unit the counts over the tiers add up to
\* the pool's count) and has no empty tier and no entry that is not positive
C20_ZeroWaste ==
    fx.kind = "alloc" =>
        LET out == fx.out
            Placed(u) == SumOf([t \in DOMAIN out |->
                                   IF u \in DOMAIN out[t] THEN out[t][u] ELSE 0])
        IN /\ DOMAIN out \subseteq fx.tiers
           /\ \A u \in DOMAIN fx.pool : Placed(u) = fx.pool[u]
           /\ \A t \in DOMAIN out :
                 /\ out[t] # <<>>
                 /\ DOMAIN out[t] \subseteq DOMAIN fx.pool
                 /\ \A u \in DOMAIN out[t] : out[t][u] > 0

\* C20 witness: tiers {1, 2} and 1000 spears of carry 25: 285 to tier 2, the
\* other 715 to tier 1; and an allocation of three unit types over four tiers
C20_ExampleSplit ==
    /\ fx.kind = "alloc" /\ fx.tiers = {1, 2}
    /\ fx.pool = [spear |-> 1000]
    /\ fx.out = (1 :> [spear |-> 715]) @@ (2 :> [spear |-> 285])

\* C21: for every pool and every two active tiers the allocated carry
\* capacities times the tiers' loot ratios differ by at most one unit carry (the
\* largest carry of a unit in the pool), the lowest tier included
C21_EqualRuntime ==
    (fx.kind = "alloc" /\ fx.pool # <<>>) =>
        LET out == fx.out
            Carry(u) == IF u \in DOMAIN fx.carries THEN fx.carries[u] ELSE 25
            Cap(t) == IF t \in DOMAIN out
                      THEN SumOf([u \in DOMAIN out[t] |-> out[t][u] * Carry(u)])
                      ELSE 0
            quantum == CHOOSE q \in {Carry(u) : u \in DOMAIN fx.pool} :
                          \A u \in DOMAIN fx.pool : Carry(u) <= q
        IN \A t1, t2 \in fx.tiers :
              Cap(t1) * ScaledRatios[t1] - Cap(t2) * ScaledRatios[t2] <= RatioScale * quantum

\* C21 witness: 1000 spears over all four tiers, every tier served, fewer troops
\* the higher the tier
C21_FourTiersServed ==
    /\ fx.kind = "alloc" /\ fx.tiers = 1..4 /\ fx.pool = [spear |-> 1000]
    /\ DOMAIN fx.out = 1..4
    /\ \A t \in 1..3 : fx.out[t]["spear"] > fx.out[t + 1]["spear"]

\* C22: in ratio mode the first mission of a cycle is sent only when no unlocked
\* tier is running in the game; a cycle that found an unlocked tier running with
\* its return more than 90 s away sends nothing; a cycle that found unlocked tiers
\* running, all returning within 90 s, sends only after it waited and read the
\* state again
C22_ScavengeGate ==
    (sc.pc # "off" /\ sc.cfg.mode = "ratio") =>
        LET found == {t \in ScavTiers : sc.opt0[t] \in {"soon", "late"}}
            far == {t \in found : ReturnTime(sc.opt0[t]) - Epoch > 90}
        IN /\ sc.dispatched # <<>> => sc.busy = {}
           /\ far # {} => sc.dispatched = <<>>
           /\ (found # {} /\ sc.dispatched # <<>>) =>
                 (sc.reread /\ sc.now >= Epoch + 5 /\ far = {})

\* C22 witness: a tier returned within the brief wait and missions were sent after
\* the second read
C22_SentAfterBriefWait ==
    /\ sc.pc = "done" /\ sc.cfg.mode = "ratio"
    /\ \E t \in ScavTiers : sc.opt0[t] = "soon"
    /\ sc.reread
    /\ sc.dispatched # <<>>

\* C23: in every mode the troops of a unit sent over all tiers of a cycle number
\* at most the idle count read minus the reserve (at least 0), and none of an
\* excluded unit or of a unit that cannot scavenge
C23_ReservesRespected ==
    sc.pc # "off" =>
        \A u \in PageUnits :
            LET total == SumOf([t \in DOMAIN sc.dispatched |->
                                  IF u \in DOMAIN sc.dispatched[t] THEN sc.dispatched[t][u] ELSE 0])
                kept == IF u \in DOMAIN sc.reserve THEN sc.reserve[u] ELSE 0
            IN /\ total <= (IF sc.seen[u] - kept > 0 THEN sc.seen[u] - kept ELSE 0)
               /\ (u \in sc.exclude \/ u \notin {"spear", "axe", "light"}) => total = 0

\* C23 witness: ten idle spears with a reserve of five, sent over two tiers by a
\* legacy mode, five in all
C23_ReserveKeptOverTwoTiers ==
    /\ sc.pc = "done" /\ sc.cfg.mode = "send_all"
    /\ sc.seen["spear"] = 10 /\ sc.reserve = [spear |-> 5]
    /\ Cardinality(DOMAIN sc.dispatched) = 2
    /\ SumOf([t \in DOMAIN sc.dispatched |->
                IF "spear" \in DOMAIN sc.dispatched[t] THEN sc.dispatched[t]["spear"] ELSE 0]) = 5

\* C24: when fill-scavenge submitted a batch that max_affordable did not cut, the
\* barracks queue with the batch ends after the scavenge return and at most one
\* training time of a unit after it
C24_QueueEndsJustAfterReturn ==
    (sc.pc = "fill_done" /\ sc.submitted /\ sc.batch = sc.uncapped) =>
        LET queue_end == (sc.info.queue_seconds + sc.batch * sc.info.train_time) * 2
        IN /\ queue_end > sc.remaining
           /\ queue_end - sc.remaining <= sc.info.train_time * 2

\* C24 witness: 100.5 s remaining, 10 s queued, 7 s a unit: 13 units, ending at 101 s
C24_ThirteenUnits ==
    /\ sc.pc = "fill_done" /\ sc.submitted
    /\ sc.remaining = 201 /\ sc.info.queue_seconds = 10 /\ sc.info.train_time = 7
    /\ sc.info.max_affordable = 1000
    /\ sc.batch = 13

\* C25: after n calls of add_log the store holds min(n, 200) entries, the most
\* recent ones in the order of insertion
C25_LogRing ==
    ps.pc = "logs" =>
        LET kept == IF ps.n < 200 THEN ps.n ELSE 200
        IN /\ Len(ps.logs) <= 200
           /\ ps.logs = [i \in 1..kept |-> ps.n - kept + i]

\* C25 witness: 203 inserts, the first three dropped
C25_ThreeDropped ==
    /\ ps.pc = "logs" /\ ps.n = 203
    /\ Len(ps.logs) = 200 /\ ps.logs[1] = 4 /\ ps.logs[200] = 203

C27_RoundTrip ==
    (disk.pc = "up" /\ disk.fresh /\ ~disk.old.crashed) =>
        /\ disk.old.file_bq.state = "whole" =>
              /\ disk.resaved => disk.file_bq = disk.old.file_bq
              /\ \A i \in DOMAIN disk.build_queues : disk.build_queues[i][1] \in {7, 12}
              /\ \A i \in DOMAIN disk.build_queues : \A j \in DOMAIN disk.build_queues[i][2] :
                    disk.build_queues[i][2][j].level \in {1, 30}
        /\ disk.old.file_bq.state = "whole" => disk.build_queues = disk.old.bq
        /\ disk.old.file_tg.state = "whole" =>
              /\ disk.toggle_states = disk.old.tg
              /\ disk.resaved => disk.file_tg = disk.old.file_tg

\* C27 witness: village 12 with the steps wood 30, main 1 and village 7 after it
\* come back from the file, and the second save wrote the same text
C27_TwoVillagesReloaded ==
    /\ disk.pc = "up" /\ disk.fresh /\ disk.resaved /\ ~disk.old.crashed
    /\ disk.build_queues = <<<<12, <<[building |-> "wood", level |-> 30],
                                     [building |-> "main", level |-> 1]>>>>,
                             <<7, <<[building |-> "main", level |-> 30]>>>>>>
    /\ disk.file_bq = disk.old.file_bq

\* C28: neither file is ever empty or partial, and a process started after a
\* failure inside a save has the state before or the state after the change
C28_AtomicReplace ==
    disk.pc # "off" =>
        /\ disk.file_bq.state \in {"absent", "whole"}
        /\ disk.file_tg.state \in {"absent", "whole"}
        /\ (disk.fresh /\ disk.old.crashed) =>
              /\ disk.build_queues \in {disk.old.before_bq, disk.old.bq}
              /\ disk.toggle_states \in {disk.old.before_tg, disk.old.tg}

\* C29: a panel action delivered as a console message or as a WebSocket message
\* invokes the callback registered for the action with the payload, or nothing
\* for an action that is not registered, under either panel implementation
C29_SameHandler ==
    ws.pc = "bridge" =>
        LET expected == IF ws.action \in {"start", "toggle_building", "bq_add"}
                        THEN [handler |-> Registered[ws.action], payload |-> ws.value]
                        ELSE NoCall
        IN /\ ws.console # Unsent => ws.console = expected
           /\ ws.socket # Unsent => ws.socket = expected

\* C30: the first message queued for a client is full_state and no other one is
C30_FullStateFirst ==
    ws.pc = "socket" =>
        \A c \in Clients :
            /\ ws.out[c] # <<>> => ws.out[c][1] = 0
            /\ \A i \in DOMAIN ws.out[c] : i > 1 => ws.out[c][i] > 0

\* C30 witness: c2 connected while the broadcast of event 1 was waiting on its
\* send to c1, and got the event after its snapshot
C30_JoinedDuringBroadcast ==
    /\ ws.pc = "socket"
    /\ ws.conns = <<"c1", "c2">>
    /\ ws.out["c1"] = <<0, 1>> /\ ws.out["c2"] = <<0, 1>>
    /\ ws.issued = 1

\* the last two notifications of a class are at least the cooldown apart
Throttled(times) == Len(times) = 2 => times[2] - times[1] >= CooldownTicks

\* C31: two 'detected' alerts are never sent less than the cooldown apart, and
\* neither are two 'cleared' notifications; a detection call always leaves
\* detected set, also when its alert is suppressed
C31_ThrottledPerClass ==
    ps.pc = "alert" =>
        /\ Throttled(ps.det)
        /\ Throttled(ps.clr)
        /\ ps.last \in {"alert", "suppressed"} => ps.detected

\* positions of the priority order whose building has a target above its level
OpenPositions(priority_order, targets, levels) ==
    {i \in DOMAIN priority_order :
        /\ priority_order[i] \in DOMAIN targets
        /\ GetOrZero(levels, priority_order[i]) < targets[priority_order[i]]}

\* C32 as stated: the first building of the priority order that has a target
\* above its current level is returned with both levels, and None is returned
\* exactly when every targeted building is at or above its target
C32_PriorityPick ==
    fx.kind = "prio" =>
        LET open == OpenPositions(fx.order, fx.targets, fx.levels) IN
        /\ open # {} =>
             \E i \in open :
                /\ \A j \in open : i <= j
                /\ fx.out = <<fx.order[i], GetOrZero(fx.levels, fx.order[i]),
                              fx.targets[fx.order[i]]>>
        /\ fx.out = None <=>
             \A b \in DOMAIN fx.targets : GetOrZero(fx.levels, b) >= fx.targets[b]

\* C32 amended: None is returned exactly when every targeted building that is
\* named in the priority order is at or above its target
C32_PriorityPickWithinOrder ==
    fx.kind = "prio" =>
        LET open == OpenPositions(fx.order, fx.targets, fx.levels) IN
        /\ open # {} =>
             \E i \in open :
                /\ \A j \in open : i <= j
                /\ fx.out = <<fx.order[i], GetOrZero(fx.levels, fx.order[i]),
                              fx.targets[fx.order[i]]>>
        /\ fx.out = None <=>
             \A i \in DOMAIN fx.order :
                fx.order[i] \in DOMAIN fx.targets
                    => GetOrZero(fx.levels, fx.order[i]) >= fx.targets[fx.order[i]]

\* C32 witness: main is at its target, wood is absent from the level map and
\* is picked from level 0
C32_SecondInOrderPicked ==
    /\ fx.kind = "prio"
    /\ fx.order = <<"main", "wood">>
    /\ fx.targets = [main |-> 1, wood |-> 2]
    /\ fx.levels = [main |-> 1]
    /\ fx.out = <<"wood", 0, 2>>

\* the cap of a unit's batch: 50 in the barracks, 25 in the stable
BatchCap(u) == IF u \in BarracksUnits THEN BarracksBatch ELSE StableBatch

\* C33: in targets mode the batch submitted for a unit with a positive target
\* is min(target - owned - queued, cap) when that deficit is positive and
\* nothing otherwise, for barracks and stable units alike; owned + queued of
\* a unit never passes its target through the manager's orders
C33_TargetsTopUp ==
    sc.pc \in {"recruit_idle", "recruit_stable"} /\ sc.cycles > 0 =>
        \A u \in (IF sc.pc = "recruit_idle" THEN RecruitUnits ELSE BarracksUnits) :
            /\ sc.targets[u] > 0 =>
                 LET deficit == sc.targets[u] - sc.seen_owned[u] - sc.seen_queued[u]
                 IN sc.batch[u] = IF deficit > 0 THEN Least(deficit, BatchCap(u)) ELSE 0
            /\ sc.owned[u] + sc.queued[u] <= sc.targets[u]
               \/ sc.owned[u] + sc.queued[u] <= sc.start[u]

\* C34: with a fill unit configured, fill-scavenge submits nothing when the
\* scavenge returns within 30 s, when the queue ends no earlier than 30 s
\* before the return, when the unit's training time or the affordable count
\* is not positive; otherwise it submits one batch of
\* min(max_affordable, max(1, floor((remaining - queue_seconds) / train_time) + 1))
\* units, and the queue timer is set, to queue_seconds + batch * train_time
\* from now, only when the submission succeeded
C34_FillDecision ==
    (sc.pc = "fill_done" /\ sc.units # <<>>) =>
        LET fetched == sc.info # <<>>
            skip == \/ sc.remaining <= 30 * TimeScale
                    \/ sc.info.queue_seconds * TimeScale >= sc.remaining - 30 * TimeScale
                    \/ sc.info.train_time <= 0
                    \/ sc.info.max_affordable <= 0
        IN /\ fetched <=> sc.remaining > 30 * TimeScale
           /\ skip => sc.batch = 0 /\ ~sc.submitted /\ sc.timer = -1
           /\ ~skip =>
                LET whole == (sc.remaining - sc.info.queue_seconds * TimeScale)
                                \div (sc.info.train_time * TimeScale) + 1
                    clamped == IF whole < 1 THEN 1 ELSE whole
                IN /\ sc.batch = Least(sc.info.max_affordable, clamped)
                   /\ sc.timer # -1 <=> sc.submitted
                   /\ sc.submitted =>
                        sc.timer = (sc.info.queue_seconds + sc.batch * sc.info.train_time)
                                       * TimeScale

\* C34 witness: 100 s remaining, 10 s queued, 7 s a unit, 5 affordable: the
\* batch of 13 is cut to 5 and the timer ends 45 s from now
C34_CutToAffordable ==
    /\ sc.pc = "fill_done" /\ sc.submitted
    /\ sc.remaining = 100 * TimeScale
    /\ sc.info.queue_seconds = 10 /\ sc.info.train_time = 7 /\ sc.info.max_affordable = 5
    /\ sc.batch = 5 /\ sc.timer = 45 * TimeScale

\* the target of a building in a template: its target level in priority mode,
\* the highest level its steps name in sequential mode
TargetOf(tpl, b) ==
    IF tpl.mode = "priority" THEN tpl.targets[b]
    ELSE LET named == {tpl.steps[i].level : i \in {j \in DOMAIN tpl.steps :
                                                        tpl.steps[j].building = b}}
         IN CHOOSE m \in named : \A n \in named : n <= m

\* C35: in either mode an upgrade of a building is submitted only if its current
\* level plus the upgrades of it in the observed queue is below its target
C35_NeverPastTarget ==
    bm.pc \in {"plan_loop", "plan_order", "plan_refresh", "plan_done"} =>
        \A i \in DOMAIN bm.orders :
            LET o == bm.orders[i]
            IN o.level + o.queued < TargetOf(bm.tpl, o.building)

\* C37: an upgrade whose cost is known is submitted only if the village's
\* resources left after the upgrades taken earlier in the same cycle cover it
C37_AffordableAfterSpending ==
    bm.pc \in {"plan_loop", "plan_order", "plan_refresh", "plan_done"} =>
        \A i \in DOMAIN bm.orders :
            LET o == bm.orders[i]
            IN o.cost_known => can_afford(o.left, PlanCosts[o.building])

\* C36: a village without panel build queue is planned from the template's
\* mode and steps, and a village with one from its own queue
C36_PlansIsolated ==
    (bm.pc = "sync" /\ bm.village # "none") =>
        IF bm.steps = <<>>
        THEN bm.planned = bm.template
        ELSE bm.planned = [mode |-> "sequential", build_steps |-> bm.steps]

\* run_fill_scavenge is entered at the end of a cycle in this step
FillStartStep == mainPc # "fill_info" /\ mainPc' = "fill_info"

\* C38: the end-of-cycle fill-scavenge training is not started while the pause
\* flag is set or the run flag is cleared
C38_NoFillAfterPauseOrStop == [][FillStartStep => (running /\ ~paused)]_vars

\* _main_loop has been entered and has not returned
LoopAlive == mainPc \notin {"startup", "setup_game", "gather_wait", "closing", "done"}

\* C39: from the start of the main loop to the shutdown the projected bot_state agrees with the
\* orchestrator: 'running' only if the run flag is set, the pause flag clear and
\* the main loop alive; 'paused' iff the pause flag is set; 'stopped' iff the run
\* flag is clear
C39_BotStateAgrees ==
    mainPc \notin {"startup", "setup_game", "closing", "done"} =>
        /\ botState = "running" => (running /\ ~paused /\ LoopAlive)
        /\ botState = "paused" <=> paused
        /\ botState = "stopped" <=> ~running

\* C40: when a broadcast has ended, every client that was connected from its
\* start to its end has been sent the event
C40_DeliveredToAllConnected ==
    ws.pc = "socket" =>
        \A pair \in ws.owed :
            \E i \in DOMAIN ws.out[pair[2]] : ws.out[pair[2]][i] = pair[1]
====
